---- MODULE Spec2Model ----
(***************************************************************************)
(* ClaudeBridge: the pseudo-terminal session supervisor (SessionManager)   *)
(* and the permission decision broker (hook server + TelegramBot).         *)
(*                                                                         *)
(* Time is the millisecond clock read by Date.now() and used by            *)
(* setTimeout.  Every operation is one run-to-completion callback of the   *)
(* single Node.js event loop; an await splits a handler into steps.        *)
(* The variable out holds what the last callback returned and the side     *)
(* effects it caused, in order (events emitted, pty writes, pty kills).    *)
(***************************************************************************)
EXTENDS Integers, Sequences, FiniteSets, TLC

\* ------------------------------------------------------------------ bounds
MaxSessions == 1
MaxTicks == 3
MaxRequests == 2
MaxTimerTicks == 6
MaxQuestionSets == 1
MaxRegistry == 3

\* ------------------------------------------------------- program constants
DEBOUNCE_MS == 2000
TickMs == 1000
MAX_BUFFER_LINES == 100
MAX_RAW_BUFFER_SIZE == 50000

NoPrompt == "none"
PromptTypes == {"multi_option", "yes_no", "permission", "completion"}
PermissionModes == {"default", "plan"}
Inputs == {"y\r", "1"}
SessionIds == 1..MaxSessions
Cwds == {"/w", "/x"}
ExitCodes == {0, 1}

VARIABLES sessionCounter, sessions, sess, exited, lastParsed, now, out,
          requestCounter, hooks, responses, pendingApprovals, timers,
          resolveCalls, warnings, pendingQuestions, pendingCustomInput,
          autoApproveMode, autoApproveCount, chatId, userRules,
          limiter, granted

sessionVars == <<sessionCounter, sessions, sess, exited, lastParsed>>

brokerVars == <<requestCounter, hooks, responses, pendingApprovals, timers,
                resolveCalls, warnings, pendingQuestions, pendingCustomInput,
                autoApproveMode, autoApproveCount, chatId, userRules>>

\* the hook endpoints' RateLimiter and the times at which it let a request
\* of each key pass (the latter is a record of the run, not held by the code)
limiterVars == <<limiter, granted>>

vars == <<sessionVars, brokerVars, limiterVars, now, out>>

\* ------------------------------------------------------- SessionManager
\* the side effects of one callback
PromptEvent(s, p) == [kind |-> "prompt", sid |-> s, arg |-> p]
OutputEvent(s, data) == [kind |-> "output", sid |-> s, arg |-> data]
ExitEvent(s, exitCode) ==
  [kind |-> "exit", sid |-> s, arg |-> ToString(exitCode)]
PtyWrite(s, text) == [kind |-> "write", sid |-> s, arg |-> text]
PtyKill(s) == [kind |-> "kill", sid |-> s, arg |-> ""]
\* the "Session Completed" message of the bot's exit listener
CompletedMessage(s, exitCode) ==
  [kind |-> "completedMessage", sid |-> s, arg |-> ToString(exitCode)]

Result(op, sid, arg, ret, fx) ==
  [op |-> op, sid |-> sid, arg |-> arg, ret |-> ret, fx |-> fx]

\* the session literal built by spawn; lastPromptTime 0 is "undefined"
\* (the code tests it for truthiness)
NewSession_Waiting(mode, cwd) ==
  [status |-> "waiting", currentPrompt |-> NoPrompt, lastPromptTime |-> 0,
   permissionMode |-> mode, cwd |-> cwd, buffer |-> <<>>, rawBuffer |-> ""]

NewSession(mode, cwd) ==
  [status |-> "active", currentPrompt |-> NoPrompt, lastPromptTime |-> 0,
   permissionMode |-> mode, cwd |-> cwd, buffer |-> <<>>, rawBuffer |-> ""]

Spawn(mode, cwd) ==
  /\ LET id == sessionCounter + 1 IN
       /\ sessionCounter' = id
       /\ sess' = (id :> NewSession(mode, cwd)) @@ sess
       /\ sessions' = sessions \cup {id}
       /\ lastParsed' = (id :> [type |-> NoPrompt, emitted |-> FALSE, input |-> FALSE]) @@ lastParsed
       /\ out' = Result("spawn", id, mode, TRUE, <<>>)
  /\ UNCHANGED <<exited, now, brokerVars, limiterVars>>

IsDifferentPrompt(session, p) ==
  session.currentPrompt = NoPrompt \/ session.currentPrompt # p

IsDebounceExpired_AtLeast(session, t) ==
  session.lastPromptTime = 0 \/ t - session.lastPromptTime >= DEBOUNCE_MS

IsDebounceExpired(session, t) ==
  session.lastPromptTime = 0 \/ t - session.lastPromptTime > DEBOUNCE_MS

ShouldEmit_TimeOnly(session, p, t) ==
  session.currentPrompt = NoPrompt \/ IsDebounceExpired(session, t)

ShouldEmit(session, p, t) ==
  IsDifferentPrompt(session, p) \/ IsDebounceExpired(session, t)

StatusOnEmit_CompletionKeeps(session, p) ==
  IF p = "completion" THEN session.status ELSE "waiting"

StatusOnEmit(session, p) == "waiting"

\* a handler that records the prompt and leaves the status as it is
AfterPrompt_KeepStatus(session, p, t) ==
  IF ShouldEmit(session, p, t)
  THEN [session EXCEPT !.currentPrompt = p, !.lastPromptTime = t]
  ELSE [session EXCEPT !.currentPrompt = p]

\* the session after handleOutput classified prompt p at time t
AfterPrompt(session, p, t) ==
  IF ShouldEmit(session, p, t)
  THEN [session EXCEPT !.status = StatusOnEmit(session, p),
                       !.currentPrompt = p, !.lastPromptTime = t]
  ELSE [session EXCEPT !.currentPrompt = p]

\* data.split('\n'): the pieces of data between its line feeds
RECURSIVE SplitFrom(_, _, _)
SplitFrom(data, i, line) ==
  IF i > Len(data) THEN <<line>>
  ELSE IF SubSeq(data, i, i) = "\n"
  THEN <<line>> \o SplitFrom(data, i + 1, "")
  ELSE SplitFrom(data, i + 1, line \o SubSeq(data, i, i))

Split(data) == SplitFrom(data, 1, "")

\* the characters String.prototype.trim removes that occur in the chunks
WhiteSpace == {" ", "\t", "\n", "\r"}

\* line.trim() is the empty string
IsBlank(line) == \A i \in 1..Len(line) : SubSeq(line, i, i) \in WhiteSpace

PushLine_DropNewest(buffer, line) ==
  IF IsBlank(line) THEN buffer
  ELSE IF Len(buffer) >= MAX_BUFFER_LINES THEN buffer
  ELSE Append(buffer, line)

\* one round of the loop over the lines of a chunk: push, then shift when
\* the buffer has grown beyond MAX_BUFFER_LINES
PushLine(buffer, line) ==
  IF IsBlank(line) THEN buffer
  ELSE IF Len(Append(buffer, line)) > MAX_BUFFER_LINES
  THEN Tail(Append(buffer, line))
  ELSE Append(buffer, line)

RECURSIVE PushLines(_, _)
PushLines(buffer, lines) ==
  IF lines = <<>> THEN buffer
  ELSE PushLines(PushLine(buffer, Head(lines)), Tail(lines))

\* rawBuffer += data, then slice(-MAX_RAW_BUFFER_SIZE) when it is longer
AppendRaw(rawBuffer, data) ==
  LET raw == rawBuffer \o data
  IN IF Len(raw) > MAX_RAW_BUFFER_SIZE
     THEN SubSeq(raw, Len(raw) - MAX_RAW_BUFFER_SIZE + 1, Len(raw))
     ELSE raw

\* the session after handleOutput stored the chunk in its two buffers
AfterData(session, data) ==
  [session EXCEPT !.buffer = PushLines(@, Split(data)),
                  !.rawBuffer = AppendRaw(@, data)]

\* onData callback: the chunk data arrives, whose classification by the
\* parser is p (NoPrompt when the parser returns null); chunks arrive until
\* the process has exited
HandleOutput(s, p, data) ==
  /\ s \in DOMAIN sess
  /\ s \notin exited
  /\ IF p = NoPrompt
     THEN /\ sess' = [sess EXCEPT ![s] = AfterData(sess[s], data)]
          /\ out' = Result("handleOutput", s, p, FALSE, <<OutputEvent(s, data)>>)
          /\ UNCHANGED lastParsed
     ELSE /\ sess' = [sess EXCEPT ![s] =
                        AfterPrompt(AfterData(sess[s], data), p, now)]
          /\ lastParsed' = [lastParsed EXCEPT ![s] =
                 [type |-> p, emitted |-> ShouldEmit(sess[s], p, now),
                  input |-> FALSE]]
          /\ out' = Result("handleOutput", s, p, ShouldEmit(sess[s], p, now),
                 IF ShouldEmit(sess[s], p, now)
                 THEN <<OutputEvent(s, data), PromptEvent(s, p)>>
                 ELSE <<OutputEvent(s, data)>>)
  /\ UNCHANGED <<sessionCounter, sessions, exited, now, brokerVars, limiterVars>>

\* sendInput refuses an unknown or completed session
CanSend_AnyStatus(sid) == sid \in sessions

CanSend(sid) == sid \in sessions /\ sess[sid].status # "completed"

SendInput(sid, text) ==
  /\ IF CanSend(sid)
     THEN /\ sess' = [sess EXCEPT ![sid].status = "active",
                                  ![sid].currentPrompt = NoPrompt]
          /\ lastParsed' = [lastParsed EXCEPT ![sid].input = TRUE]
          /\ out' = Result("sendInput", sid, text, TRUE, <<PtyWrite(sid, text)>>)
     ELSE /\ out' = Result("sendInput", sid, text, FALSE, <<>>)
          /\ UNCHANGED <<sess, lastParsed>>
  /\ UNCHANGED <<sessionCounter, sessions, exited, now, brokerVars, limiterVars>>

SetPermissionMode(sid, mode) ==
  /\ IF sid \in sessions
     THEN /\ sess' = [sess EXCEPT ![sid].permissionMode = mode]
          /\ out' = Result("setPermissionMode", sid, mode, TRUE, <<>>)
     ELSE /\ out' = Result("setPermissionMode", sid, mode, FALSE, <<>>)
          /\ UNCHANGED sess
  /\ UNCHANGED <<sessionCounter, sessions, exited, lastParsed, now, brokerVars, limiterVars>>

Kill_EmitsExit(sid) ==
  /\ IF sid \in sessions
     THEN /\ sess' = [sess EXCEPT ![sid].status = "completed"]
          /\ out' = Result("kill", sid, "", TRUE,
                           <<PtyKill(sid), ExitEvent(sid, 0)>>)
     ELSE /\ out' = Result("kill", sid, "", FALSE, <<>>)
          /\ UNCHANGED sess
  /\ UNCHANGED <<sessionCounter, sessions, exited, lastParsed, now, brokerVars, limiterVars>>

Kill(sid) ==
  /\ IF sid \in sessions
     THEN /\ sess' = [sess EXCEPT ![sid].status = "completed"]
          /\ out' = Result("kill", sid, "", TRUE, <<PtyKill(sid)>>)
     ELSE /\ out' = Result("kill", sid, "", FALSE, <<>>)
          /\ UNCHANGED sess
  /\ UNCHANGED <<sessionCounter, sessions, exited, lastParsed, now, brokerVars, limiterVars>>

\* the ids of a set in ascending order (Map iteration is insertion order)
RECURSIVE Ascending(_)
Ascending(S) ==
  IF S = {} THEN <<>>
  ELSE LET m == CHOOSE x \in S : \A y \in S : x <= y
       IN <<m>> \o Ascending(S \ {m})

\* the first registered session in cwd that is not completed, 0 when there
\* is none (undefined)
FindSessionByCwd(cwd) ==
  LET found == {s \in sessions : sess[s].cwd = cwd /\ sess[s].status # "completed"}
  IN IF found = {} THEN 0 ELSE Ascending(found)[1]

\* a caller looks a session up by its working directory
FindSession(cwd) ==
  /\ out' = Result("findSessionByCwd", FindSessionByCwd(cwd), cwd,
                   FindSessionByCwd(cwd) # 0, <<>>)
  /\ UNCHANGED <<sessionVars, now, brokerVars, limiterVars>>

KillAll ==
  LET live == {s \in sessions : sess[s].status # "completed"}
      order == Ascending(live)
  IN /\ sess' = [s \in DOMAIN sess |->
                   IF s \in live THEN [sess[s] EXCEPT !.status = "completed"]
                   ELSE sess[s]]
     /\ out' = Result("killAll", 0, "", TRUE,
                      [i \in 1..Len(order) |-> PtyKill(order[i])])
     /\ UNCHANGED <<sessionCounter, sessions, exited, lastParsed, now, brokerVars, limiterVars>>

Cleanup ==
  LET done == {s \in sessions : sess[s].status = "completed"}
  IN /\ sessions' = sessions \ done
     /\ out' = Result("cleanup", 0, "", Cardinality(done), <<>>)
     /\ UNCHANGED <<sessionCounter, sess, exited, lastParsed, now, brokerVars, limiterVars>>

\* an exit that also drops the question sets that are waiting for an answer
OnExit_DropsPending(s, exitCode) ==
  /\ s \in DOMAIN sess
  /\ s \notin exited
  /\ exited' = exited \cup {s}
  /\ sess' = [sess EXCEPT ![s].status = "completed"]
  /\ pendingQuestions' = <<>>
  /\ out' = Result("exit", s, ToString(exitCode), TRUE,
                   <<ExitEvent(s, exitCode)>>)
  /\ UNCHANGED <<sessionCounter, sessions, lastParsed, now, requestCounter,
                 hooks, responses, pendingApprovals, timers, resolveCalls,
                 warnings, pendingCustomInput, autoApproveMode,
                 autoApproveCount, chatId, userRules, limiterVars>>

\* onExit callback: the process of session s has terminated; the bot's
\* listener of the exit event reports it to the chat, if one is connected
OnExit(s, exitCode) ==
  /\ s \in DOMAIN sess
  /\ s \notin exited
  /\ exited' = exited \cup {s}
  /\ sess' = [sess EXCEPT ![s].status = "completed"]
  /\ out' = Result("exit", s, ToString(exitCode), TRUE,
                   IF chatId
                   THEN <<ExitEvent(s, exitCode), CompletedMessage(s, exitCode)>>
                   ELSE <<ExitEvent(s, exitCode)>>)
  /\ UNCHANGED <<sessionCounter, sessions, lastParsed, now, brokerVars, limiterVars>>

Tick ==
  /\ now + TickMs <= TickMs * (MaxTicks + 1)
  /\ now' = now + TickMs
  /\ out' = Result("tick", 0, "", TRUE, <<>>)
  /\ UNCHANGED <<sessionCounter, sessions, sess, exited, lastParsed, brokerVars, limiterVars>>

\* no custom answer is awaited (pendingCustomInput is null)
NoCustomInput == [requestId |-> 0, questionIndex |-> 0]

\* the state after the TelegramBot and the hook server are constructed,
\* before any configuration is loaded
\* new RateLimiter(opts)
NewLimiter(opts) ==
  [maxRequests |-> opts.maxRequests, windowMs |-> opts.windowMs,
   requests |-> <<>>]

\* the limiter of the hook endpoints
HookLimiterOpts == [maxRequests |-> 120, windowMs |-> 60000]

ManagersConstructed ==
  /\ sessionCounter = 0
  /\ sessions = {}
  /\ sess = <<>>
  /\ exited = {}
  /\ lastParsed = <<>>
  /\ now = TickMs
  /\ out = Result("init", 0, "", TRUE, <<>>)
  /\ requestCounter = 0
  /\ hooks = <<>>
  /\ responses = <<>>
  /\ pendingApprovals = <<>>
  /\ timers = {}
  /\ resolveCalls = <<>>
  /\ warnings = <<>>
  /\ pendingQuestions = <<>>
  /\ pendingCustomInput = NoCustomInput
  /\ autoApproveMode = FALSE
  /\ autoApproveCount = 0

Constructed ==
  /\ ManagersConstructed
  /\ limiter = NewLimiter(HookLimiterOpts)
  /\ granted = <<>>

\* a server with a connected chat and no user rules
Init ==
  /\ Constructed
  /\ chatId = TRUE
  /\ userRules = <<>>

SessionNext ==
  \/ \E mode \in PermissionModes, cwd \in Cwds :
        sessionCounter < MaxSessions /\ Spawn(mode, cwd)
  \* (the text of the chunks plays no part in the session runs; the
  \* buffers are the subject of BufferSpec)
  \/ \E s \in SessionIds, p \in PromptTypes \cup {NoPrompt} :
        HandleOutput(s, p, "")
  \/ \E s \in SessionIds, text \in Inputs : SendInput(s, text)
  \/ \E s \in SessionIds, mode \in PermissionModes : SetPermissionMode(s, mode)
  \/ \E s \in SessionIds : Kill(s)
  \/ KillAll
  \/ Cleanup
  \/ \E s \in SessionIds, exitCode \in ExitCodes : OnExit(s, exitCode)
  \/ Tick

SessionSpec == Init /\ [][SessionNext]_vars

\* the output buffers of one session.  A run starts with a fresh session,
\* or with the session as it is after a first chunk of FillerLen letters
\* "a" and 98 chunks "x" (none with a line feed, none classified): 99 lines
\* in the line buffer and 49998 characters in the raw buffer.
FillerLen == 49900

\* the string of n copies of the character ch
RECURSIVE Filler(_, _)
Filler(ch, n) ==
  IF n = 0 THEN ""
  ELSE IF n % 2 = 1 THEN ch \o Filler(ch, n - 1)
  ELSE LET half == Filler(ch, n \div 2) IN half \o half

BufferStarts ==
  {[buffer |-> <<>>, rawBuffer |-> ""],
   [buffer |-> <<Filler("a", FillerLen)>> \o [i \in 1..98 |-> "x"],
    rawBuffer |-> Filler("a", FillerLen) \o Filler("x", 98)]}

\* the chunks the pty delivers
Chunks == {"y", "z\n\nw ", " \n\r"}

BufferInit ==
  /\ \E start \in BufferStarts :
        sess = (1 :> [NewSession("default", "/w") EXCEPT
                        !.buffer = start.buffer,
                        !.rawBuffer = start.rawBuffer])
  /\ sessionCounter = 1
  /\ sessions = {1}
  /\ exited = {}
  /\ lastParsed = (1 :> [type |-> NoPrompt, emitted |-> FALSE, input |-> FALSE])
  /\ now = TickMs
  /\ out = Result("init", 0, "", TRUE, <<>>)
  /\ requestCounter = 0
  /\ hooks = <<>>
  /\ responses = <<>>
  /\ pendingApprovals = <<>>
  /\ timers = {}
  /\ resolveCalls = <<>>
  /\ warnings = <<>>
  /\ pendingQuestions = <<>>
  /\ pendingCustomInput = NoCustomInput
  /\ autoApproveMode = FALSE
  /\ autoApproveCount = 0
  /\ chatId = TRUE
  /\ userRules = <<>>
  /\ limiter = NewLimiter(HookLimiterOpts)
  /\ granted = <<>>

\* at most one chunk arrives at each reading of the clock
BufferNext ==
  \/ \E data \in Chunks, p \in {NoPrompt, "yes_no"} :
        out.op # "handleOutput" /\ HandleOutput(1, p, data)
  \/ Tick

BufferSpec == BufferInit /\ [][BufferNext]_vars

\* the session registry with several sessions, some in the same directory
RegistryIds == 1..MaxRegistry

RegistryNext ==
  \/ \E cwd \in Cwds : sessionCounter < MaxRegistry /\ Spawn("default", cwd)
  \/ \E s \in RegistryIds : Kill(s)
  \/ KillAll
  \/ Cleanup
  \/ \E s \in RegistryIds, exitCode \in ExitCodes : OnExit(s, exitCode)
  \/ \E cwd \in Cwds : FindSession(cwd)

RegistrySpec == Init /\ [][RegistryNext]_vars

\* ------------------------------------------------ session claims (C5..C10)
Emitted(r, s) ==
  \E i \in 1..Len(r.fx) : r.fx[i].kind = "prompt" /\ r.fx[i].sid = s

\* a step in which handleOutput classified a prompt for session s
Classified(s, p) ==
  out'.op = "handleOutput" /\ out'.sid = s /\ out'.arg = p

StartsActive ==
  \A s \in DOMAIN sess' : s \notin DOMAIN sess => sess'[s].status = "active"

LanguageSteps ==
  {<<"active", "waiting">>, <<"waiting", "active">>, <<"active", "completed">>}

\* C5 (as stated): the status sequence of a session, repeats collapsed, is a
\* word of active (waiting active)* completed: it starts active and every
\* change of status is active->waiting, waiting->active or active->completed.
C5_Language ==
  [][/\ StartsActive
     /\ \A s \in DOMAIN sess :
          sess'[s].status # sess[s].status =>
            <<sess[s].status, sess'[s].status>> \in LanguageSteps]_vars

\* C5 (amended): a session starts active; from active its status changes
\* only to waiting or completed, and from waiting only to active or completed,
\* so up to its first completed the status sequence is a word of
\* active (waiting active)* (waiting)? completed.
C5_LanguageUpToCompleted ==
  [][/\ StartsActive
     /\ \A s \in DOMAIN sess :
          (sess[s].status # "completed" /\ sess'[s].status # sess[s].status) =>
            <<sess[s].status, sess'[s].status>> \in
               LanguageSteps \cup {<<"waiting", "completed">>}]_vars

\* a session was completed while it was waiting on a tracked prompt
C5_Witness ==
  \E s \in DOMAIN sess :
    /\ out.op \in {"kill", "exit"} /\ out.sid = s /\ out.ret = TRUE
    /\ sess[s].status = "completed"
    /\ sess[s].currentPrompt # NoPrompt

\* C6 (as stated): completed is terminal; once a session is completed no
\* operation or event changes its status or any other field of the session.
C6_CompletedImmutable ==
  [][\A s \in DOMAIN sess :
       sess[s].status = "completed" => sess'[s] = sess[s]]_vars

\* C7 (as stated): a classified prompt is emitted (status waiting, emission
\* time recorded) iff no prompt is tracked, or the type differs, or at least
\* 2 seconds have elapsed since the last emission; otherwise only the tracked
\* prompt is replaced.
C7_DebounceAtLeast ==
  [][\A s \in DOMAIN sess, p \in PromptTypes : Classified(s, p) =>
       LET due == \/ sess[s].currentPrompt = NoPrompt
                  \/ sess[s].currentPrompt # p
                  \/ now - sess[s].lastPromptTime >= DEBOUNCE_MS
       IN Emitted(out', s) <=> due]_vars

\* C7 (amended): a classified prompt is emitted (status waiting, emission
\* time recorded, prompt tracked) iff no prompt is tracked, or the type
\* differs, or no emission was recorded yet, or MORE than 2 seconds have
\* elapsed since the last emission; otherwise only the tracked prompt is
\* replaced, with no emission and no change to status or emission time.
C7_DebounceMoreThan ==
  [][\A s \in DOMAIN sess, p \in PromptTypes : Classified(s, p) =>
       LET due == \/ sess[s].currentPrompt = NoPrompt
                  \/ sess[s].currentPrompt # p
                  \/ sess[s].lastPromptTime = 0
                  \/ now - sess[s].lastPromptTime > DEBOUNCE_MS
       IN /\ Emitted(out', s) <=> due
          /\ due => sess'[s] = [sess[s] EXCEPT !.status = "waiting",
                                  !.currentPrompt = p, !.lastPromptTime = now]
          /\ ~due => sess'[s] = [sess[s] EXCEPT !.currentPrompt = p]]_vars

\* a same-type prompt was suppressed exactly 2 seconds after the last emission
C7_Witness ==
  \E s \in DOMAIN sess :
    /\ out.op = "handleOutput" /\ out.sid = s /\ ~Emitted(out, s)
    /\ out.arg \in PromptTypes
    /\ now - sess[s].lastPromptTime = DEBOUNCE_MS

\* C8 (as stated): of two successively classified prompts of one session, a
\* second one of the same type inside the 2-second window is not emitted
\* (one emission for the pair) whatever happened in between, and a second one
\* of a different type is emitted (two emissions) whatever the time.
C8_PairEmissions ==
  [][\A s \in DOMAIN sess, p \in PromptTypes :
       (Classified(s, p) /\ lastParsed[s].emitted) =>
         /\ (lastParsed[s].type = p /\ now - sess[s].lastPromptTime < DEBOUNCE_MS)
               => ~Emitted(out', s)
         /\ lastParsed[s].type # p => Emitted(out', s)]_vars

\* C8 (amended): when the first of two successively classified prompts was
\* emitted, a second one of the same type arriving at most 2 seconds later is
\* not emitted provided no sendInput succeeded on the session in between
\* (sendInput clears the tracked prompt, so the next prompt is emitted
\* again); a second one of a different type is always emitted.
C8_PairEmissionsNoInput ==
  [][\A s \in DOMAIN sess, p \in PromptTypes :
       (Classified(s, p) /\ lastParsed[s].emitted) =>
         /\ (/\ lastParsed[s].type = p
             /\ ~lastParsed[s].input
             /\ now - sess[s].lastPromptTime <= DEBOUNCE_MS) => ~Emitted(out', s)
         /\ (lastParsed[s].type = p /\ lastParsed[s].input) => Emitted(out', s)
         /\ lastParsed[s].type # p => Emitted(out', s)]_vars

\* a prompt was classified inside the window of the last emission and was
\* not emitted
C8_Witness ==
  \E s \in DOMAIN sess :
    /\ out.op = "handleOutput" /\ out.sid = s /\ out.arg \in PromptTypes
    /\ ~lastParsed[s].emitted
    /\ now - sess[s].lastPromptTime < DEBOUNCE_MS

\* C9 (as stated): a classified completion prompt is always emitted at once
\* and never sets the status to waiting.
C9_CompletionSpecial ==
  [][\A s \in DOMAIN sess : Classified(s, "completion") =>
       Emitted(out', s) /\ sess'[s].status # "waiting"]_vars

\* C9 (amended): a completion prompt is handled like every other type: it
\* is emitted only under the debounce rule (none tracked, type differs, or
\* more than 2 seconds since the last emission), and when emitted it sets
\* the status to waiting; when suppressed the status is unchanged.
C9_CompletionDebounced ==
  [][\A s \in DOMAIN sess : Classified(s, "completion") =>
       /\ Emitted(out', s) <=>
            \/ sess[s].currentPrompt # "completion"
            \/ sess[s].lastPromptTime = 0
            \/ now - sess[s].lastPromptTime > DEBOUNCE_MS
       /\ Emitted(out', s) => sess'[s].status = "waiting"
       /\ ~Emitted(out', s) => sess'[s].status = sess[s].status]_vars

\* a completion prompt has just been emitted, and the session is waiting
C9_Witness ==
  \E s \in DOMAIN sess :
    /\ out.op = "handleOutput" /\ out.sid = s /\ out.arg = "completion"
    /\ Emitted(out, s)
    /\ sess[s].status = "waiting"

\* C10: sendInput returns false, writes nothing and changes no session
\* state when the id is unknown or the session is completed; otherwise it
\* writes the text exactly once, sets status active, clears the tracked
\* prompt and returns true.
C10_SendInput ==
  [][\A sid \in SessionIds, text \in Inputs :
       (out'.op = "sendInput" /\ out'.sid = sid /\ out'.arg = text) =>
         IF sid \notin sessions \/ sess[sid].status = "completed"
         THEN /\ out'.ret = FALSE
              /\ out'.fx = <<>>
              /\ sess' = sess /\ sessions' = sessions
         ELSE /\ out'.ret = TRUE
              /\ out'.fx = <<PtyWrite(sid, text)>>
              /\ sess'[sid].status = "active"
              /\ sess'[sid].currentPrompt = NoPrompt]_vars

\* sendInput was refused on a registered, completed session
C10_Witness ==
  \E s \in sessions :
    /\ out.op = "sendInput" /\ out.sid = s /\ out.ret = FALSE
    /\ sess[s].status = "completed"

\* ---------------------------------------------------------- policy engine
LevelOrder == [safe |-> 0, caution |-> 1, dangerous |-> 2, critical |-> 3]

\* the pairs (pattern source, text) for which RegExp(pattern).test(text) is
\* true, over the patterns of the rules and the catalogue and the texts of
\* Payloads
RegexTable ==
  {<<"mkfs\\.", "chmod 600 key && mkfs.ext4 /dev/sdb">>,
   <<"rm\\s+(-[^\\s]*)?r", "rm -r build">>,
   <<"rm\\s+(-[^\\s]*)?r", "rm -rf /tmp/x">>,
   <<"rm\\s+(-[^\\s]*)?r", "chmod +x run.sh && rm -r build">>,
   <<"chmod\\s+", "chmod +x run.sh && rm -r build">>,
   <<"chmod\\s+", "chmod 600 key && mkfs.ext4 /dev/sdb">>,
   <<"rm\\s+(-[^\\s]*)?r[^\\s]*f|rm\\s+(-[^\\s]*)?f[^\\s]*r", "rm -rf /tmp/x">>,
   <<"^/w", "/w">>,
   <<"^/w", "/w/a.txt">>}

RegexTest(pattern, text) == <<pattern, text>> \in RegexTable

\* pattern sources for which new RegExp(pattern) throws a SyntaxError
InvalidPatterns == {"("}

\* a rule; has names the criteria present on rule.match
MakeRule(name, has, tools, cwdP, cmdP, fileP, action) ==
  [name |-> name, has |-> has, toolName |-> tools, cwdPattern |-> cwdP,
   commandPattern |-> cmdP, filePattern |-> fileP, action |-> action]

DefaultRules_NoRmRf ==
  <<MakeRule("safe-reads", {"toolName"},
             {"Read", "Glob", "Grep", "WebSearch", "WebFetch"}, "", "", "",
             "allow"),
    MakeRule("deny-force-push", {"toolName", "commandPattern"}, {"Bash"}, "",
             "git\\s+push\\s+.*--force|git\\s+push\\s+-f", "", "deny")>>

DefaultRules ==
  <<MakeRule("safe-reads", {"toolName"},
             {"Read", "Glob", "Grep", "WebSearch", "WebFetch"}, "", "", "",
             "allow"),
    MakeRule("deny-rm-rf", {"toolName", "commandPattern"}, {"Bash"}, "",
             "rm\\s+(-[^\\s]*)?r[^\\s]*f|rm\\s+(-[^\\s]*)?f[^\\s]*r", "",
             "deny"),
    MakeRule("deny-force-push", {"toolName", "commandPattern"}, {"Bash"}, "",
             "git\\s+push\\s+.*--force|git\\s+push\\s+-f", "", "deny")>>

\* the user-configured rule lists the server is started with
UserRuleSets ==
  {<<>>,
   <<MakeRule("deny-in-w", {"cwdPattern"}, {}, "^/w", "", "", "deny")>>,
   <<MakeRule("allow-tools", {"toolName"}, {"Write", "Edit", "Bash"}, "", "",
              "", "allow")>>}

\* further rule lists for the rule engine on its own: a rule without
\* criteria, a rule whose pattern does not compile, a rule on file paths
PolicyRuleSets ==
  UserRuleSets \cup
  {<<MakeRule("allow-any", {}, {}, "", "", "", "allow")>>,
   <<MakeRule("bad-pattern", {"commandPattern"}, {}, "", "(", "", "allow"),
     MakeRule("deny-in-w", {"cwdPattern"}, {}, "^/w", "", "", "deny")>>,
   <<MakeRule("deny-w-files", {"toolName", "filePattern"}, {"Write", "Read"},
              "", "", "^/w", "deny")>>}

\* a question of an AskUserQuestion input with its number of options
MakeQuestion(multiSelect, options) ==
  [multiSelect |-> multiSelect, options |-> options]

\* hook payloads; command and file_path are "" when tool_input has no such
\* field, questions is the questions array of an AskUserQuestion input,
\* has_input is FALSE for a request body without tool_input
MakePayload(tool, cwd, command, file, questions) ==
  [tool_name |-> tool, cwd |-> cwd, command |-> command, file_path |-> file,
   questions |-> questions, has_input |-> TRUE]

Payloads ==
  [read |-> MakePayload("Read", "/w", "", "/x", <<>>),
   bash_rm_r |-> MakePayload("Bash", "/w", "rm -r build", "", <<>>),
   bash_rm_rf |-> MakePayload("Bash", "/w", "rm -rf /tmp/x", "", <<>>),
   bash_chmod_rm |-> MakePayload("Bash", "/w",
                       "chmod +x run.sh && rm -r build", "", <<>>),
   bash_mkfs |-> MakePayload("Bash", "/w",
                   "chmod 600 key && mkfs.ext4 /dev/sdb", "", <<>>),
   write |-> MakePayload("Write", "/w", "", "/w/a.txt", <<>>),
   ask |-> MakePayload("AskUserQuestion", "/w", "", "",
             <<MakeQuestion(FALSE, 2), MakeQuestion(TRUE, 2)>>),
   ask0 |-> MakePayload("AskUserQuestion", "/w", "", "", <<>>),
   ask1 |-> MakePayload("AskUserQuestion", "/w", "", "",
             <<MakeQuestion(FALSE, 2)>>),
   ask4 |-> MakePayload("AskUserQuestion", "/w", "", "",
             <<MakeQuestion(FALSE, 4)>>),
   askm4 |-> MakePayload("AskUserQuestion", "/w", "", "",
              <<MakeQuestion(TRUE, 4)>>),
   bash_no_input |-> [MakePayload("Bash", "/w", "", "", <<>>)
                        EXCEPT !.has_input = FALSE]]

PayloadNames == DOMAIN Payloads

\* the requests of the broker runs, of the question runs
BrokerPayloads == {"read", "bash_rm_r", "bash_rm_rf", "write", "ask"}
QuestionPayloads == {"ask", "ask1"}
KeyPayloads == {"ask", "ask1", "ask4", "askm4"}

\* one criterion of matchesRule: "pass" goes on to the next criterion,
\* "false" is return false, "throw" is an exception (a property read on an
\* undefined tool_input, a pattern that does not compile)
CheckToolName(payload, rule) ==
  IF "toolName" \in rule.has /\ payload.tool_name \notin rule.toolName
  THEN "false" ELSE "pass"

CheckPattern(present, readsInput, payload, pattern, text) ==
  IF ~present THEN "pass"
  ELSE IF readsInput /\ ~payload.has_input THEN "throw"
  ELSE IF pattern \in InvalidPatterns THEN "throw"
  ELSE IF RegexTest(pattern, text) THEN "pass" ELSE "false"

MatchOutcome_AnyCriterion(payload, rule) ==
  IF \/ rule.has = {}
     \/ "toolName" \in rule.has /\ payload.tool_name \in rule.toolName
     \/ "cwdPattern" \in rule.has /\ RegexTest(rule.cwdPattern, payload.cwd)
     \/ "commandPattern" \in rule.has
           /\ RegexTest(rule.commandPattern, payload.command)
     \/ "filePattern" \in rule.has
           /\ RegexTest(rule.filePattern, payload.file_path)
  THEN "true" ELSE "false"

\* the outcome of matchesRule: "true", "false" or "throw"
MatchOutcome(payload, rule) ==
  LET checks ==
        <<CheckToolName(payload, rule),
          CheckPattern("cwdPattern" \in rule.has, FALSE, payload,
                       rule.cwdPattern, payload.cwd),
          CheckPattern("commandPattern" \in rule.has, TRUE, payload,
                       rule.commandPattern, payload.command),
          CheckPattern("filePattern" \in rule.has, TRUE, payload,
                       rule.filePattern, payload.file_path)>>
      stops == {i \in 1..4 : checks[i] # "pass"}
  IN IF stops = {} THEN "true"
     ELSE checks[CHOOSE i \in stops : \A j \in stops : i <= j]

MatchesRule(payload, rule) == MatchOutcome(payload, rule) = "true"

\* the result of evaluateAutoApproveRules when it throws
Threw == -1

EvaluateAutoApproveRules_Last(payload, rules) ==
  LET hits == {i \in 1..Len(rules) : MatchesRule(payload, rules[i])}
  IN IF hits = {} THEN 0 ELSE CHOOSE i \in hits : \A j \in hits : i >= j

\* the index of the first matching rule, 0 when none matches (null), Threw
\* when a rule before the first match throws
EvaluateAutoApproveRules(payload, rules) ==
  LET stops == {i \in 1..Len(rules) : MatchOutcome(payload, rules[i]) # "false"}
      first == CHOOSE i \in stops : \A j \in stops : i <= j
  IN IF stops = {} THEN 0
     ELSE IF MatchOutcome(payload, rules[first]) = "throw" THEN Threw
     ELSE first

AutoApproveRules_UserFirst == userRules \o DefaultRules

\* the merged list the server builds at start
AutoApproveRules == DefaultRules \o userRules

ESCALATION_PATTERNS ==
  <<[level |-> "critical", toolName |-> "Bash",
     pattern |-> "rm\\s+(-[^\\s]*)?r[^\\s]*f\\s+\\/\\s|rm\\s+(-[^\\s]*)?f[^\\s]*r\\s+\\/\\s",
     description |-> "Recursive force delete from root"],
    [level |-> "critical", toolName |-> "Bash",
     pattern |-> "mkfs\\.",
     description |-> "Filesystem formatting"],
    [level |-> "critical", toolName |-> "Bash",
     pattern |-> "dd\\s+.*of=\\/dev\\/",
     description |-> "Direct disk write"],
    [level |-> "dangerous", toolName |-> "Bash",
     pattern |-> "git\\s+push\\s+.*--force|git\\s+push\\s+-f",
     description |-> "Force push"],
    [level |-> "dangerous", toolName |-> "Bash",
     pattern |-> "git\\s+reset\\s+--hard",
     description |-> "Hard reset"],
    [level |-> "dangerous", toolName |-> "Bash",
     pattern |-> "DROP\\s+(TABLE|DATABASE|SCHEMA)",
     description |-> "SQL DROP operation"],
    [level |-> "dangerous", toolName |-> "Bash",
     pattern |-> "TRUNCATE\\s+TABLE",
     description |-> "SQL TRUNCATE operation"],
    [level |-> "dangerous", toolName |-> "Bash",
     pattern |-> "DELETE\\s+FROM\\s+\\w+\\s*(;|$)",
     description |-> "SQL DELETE without WHERE clause"],
    [level |-> "dangerous", toolName |-> "Bash",
     pattern |-> "rm\\s+(-[^\\s]*)?r",
     description |-> "Recursive delete"],
    [level |-> "caution", toolName |-> "Bash",
     pattern |-> "git\\s+checkout\\s+\\.",
     description |-> "Discard all local changes"],
    [level |-> "caution", toolName |-> "Bash",
     pattern |-> "git\\s+clean\\s+-[^\\s]*f",
     description |-> "Force clean untracked files"],
    [level |-> "caution", toolName |-> "Bash",
     pattern |-> "chmod\\s+",
     description |-> "Permission change"],
    [level |-> "caution", toolName |-> "Bash",
     pattern |-> "chown\\s+",
     description |-> "Ownership change"],
    [level |-> "caution", toolName |-> "Bash",
     pattern |-> "npm\\s+publish|yarn\\s+publish",
     description |-> "Package publish"],
    [level |-> "caution", toolName |-> "Bash",
     pattern |-> "curl\\s+.*\\|\\s*(ba)?sh",
     description |-> "Piping remote script to shell"]>>

\* "" stands for null (nothing to check)
GetCheckableText(payload) ==
  CASE payload.tool_name = "Bash" -> payload.command
    [] payload.tool_name \in {"Edit", "Write", "Read"} -> payload.file_path
    [] OTHER -> "{json}"

NO_MATCH == "No escalation patterns matched"

\* the catalogue patterns the loop of classifyEscalation finds matching, in
\* the order of the catalogue
MatchedPatterns(catalogue, payload) ==
  SelectSeq(catalogue,
            LAMBDA ep : /\ ep.toolName = payload.tool_name
                        /\ GetCheckableText(payload) # ""
                        /\ RegexTest(ep.pattern, GetCheckableText(payload)))

HighestLevel_Last(eps, highest) ==
  IF eps = <<>> THEN highest ELSE eps[Len(eps)].level

\* highestLevel after the loop went through the matching patterns eps
RECURSIVE HighestLevel(_, _)
HighestLevel(eps, highest) ==
  IF eps = <<>> THEN highest
  ELSE HighestLevel(Tail(eps),
                    IF LevelOrder[Head(eps).level] > LevelOrder[highest]
                    THEN Head(eps).level ELSE highest)

\* matchedPatterns.join(', ')
RECURSIVE Join(_)
Join(strs) ==
  IF Len(strs) = 0 THEN ""
  ELSE IF Len(strs) = 1 THEN strs[1]
  ELSE strs[1] \o ", " \o Join(Tail(strs))

\* the result of classifyEscalation over a catalogue; level "throw" when
\* getCheckableText reads a field of an undefined tool_input for a pattern
\* of the request's tool
Classify(catalogue, payload) ==
  LET tried == {i \in 1..Len(catalogue) :
                    catalogue[i].toolName = payload.tool_name}
      eps == MatchedPatterns(catalogue, payload)
      patterns == [i \in 1..Len(eps) |-> eps[i].description]
  IN IF tried # {} /\ ~payload.has_input
          /\ payload.tool_name \in {"Bash", "Edit", "Write", "Read"}
     THEN [level |-> "throw", reason |-> "", patterns |-> <<>>]
     ELSE [level |-> HighestLevel(eps, "safe"),
           reason |-> IF Len(patterns) > 0 THEN Join(patterns) ELSE NO_MATCH,
           patterns |-> patterns]

\* the level classifyEscalation returns
ClassifyEscalation(payload) == Classify(ESCALATION_PATTERNS, payload).level

\* -------------------------------------------------------- decision broker
WARNING_MS == 480000
AUTO_DENY_MS == 600000
QUESTION_EXPIRY_MS == 600000
TimerTickMs == 120000

RequestIds == 1..MaxRequests
Actions == {"allow", "deny", "allowall"}
MaxClock == TickMs + MaxTimerTicks * TimerTickMs

\* messages to the decision channel and steps on the pending map, as side
\* effects in out.fx
ApprovalMessage(id, level) == [kind |-> "approvalMessage", sid |-> id, arg |-> level]
QuestionMessage(id) == [kind |-> "questionMessage", sid |-> id, arg |-> ""]
EscalationWarning(id, level) == [kind |-> "escalationWarning", sid |-> id, arg |-> level]
TimeoutWarning(id) == [kind |-> "timeoutWarning", sid |-> id, arg |-> ""]
EditMessage(id, text) == [kind |-> "editMessage", sid |-> id, arg |-> text]
ResolveCall(id, decision) == [kind |-> "resolve", sid |-> id, arg |-> decision]
DeleteCall(id) == [kind |-> "delete", sid |-> id, arg |-> ""]

NoResponse == [decision |-> "", reason |-> <<>>]
Response(decision, reason) == [decision |-> decision, reason |-> reason]
Returned == [pc |-> "returned", payload |-> "", sent |-> 0]
InFlight(pc, pn) == [pc |-> pc, payload |-> pn, sent |-> 0]

TelegramResponse_AlwaysDeny(decision) ==
  Response("deny", <<"Denied via Telegram">>)

\* what the hook answers once requestApproval resolved with decision
TelegramResponse(decision) ==
  Response(decision, IF decision = "allow" THEN <<"Approved via Telegram">>
                     ELSE <<"Denied via Telegram">>)

\* an answer that allows whatever the rule says
RuleResponse_Allow(rule) == Response("allow", <<"Rule", rule.name>>)

RuleResponse(rule) == Response(rule.action, <<"Rule", rule.name>>)

\* the handler threw outside its try block: the request fails with an
\* internal server error and carries no decision
ErrorResponse == Response("error", <<"500 Internal Server Error">>)

ApprovalTimers_Swapped(id, t) ==
  {[id |-> id, kind |-> "warn", due |-> t + AUTO_DENY_MS],
   [id |-> id, kind |-> "deny", due |-> t + WARNING_MS]}

ApprovalTimers_WarnOnly(id, t) ==
  {[id |-> id, kind |-> "warn", due |-> t + WARNING_MS]}

\* the two one-shot timers armed by requestApproval at time t
ApprovalTimers(id, t) ==
  {[id |-> id, kind |-> "warn", due |-> t + WARNING_MS],
   [id |-> id, kind |-> "deny", due |-> t + AUTO_DENY_MS]}

HasPending_OnceRequested(id) ==
  \/ id \in DOMAIN pendingApprovals
  \/ (id \in DOMAIN resolveCalls /\ resolveCalls[id] # <<>>)

\* this.pendingApprovals.has(id) / get(id) is defined
HasPending(id) == id \in DOMAIN pendingApprovals

\* a delete that empties the map
DeletePending_All(map, id) == <<>>

DeletePending_Keep(map, id) == map

DeletePending(map, id) == [k \in DOMAIN map \ {id} |-> map[k]]

\* the synchronous steps of a button callback on a pending request
ButtonResolution(id, decision) == <<ResolveCall(id, decision), DeleteCall(id)>>

TimeoutResolution_ResolveFirst(id) == <<ResolveCall(id, "deny"), DeleteCall(id)>>

\* the synchronous steps of the 10-minute callback on a pending request
TimeoutResolution(id) == <<DeleteCall(id), ResolveCall(id, "deny")>>

\* a handler without the special handling of AskUserQuestion
Intercepted_Never(payload) == FALSE

\* the request is for the tool the handler answers itself
Intercepted(payload) == payload.tool_name = "AskUserQuestion"

\* POST /hook/permission up to its first await (or its return)
HookPermission(pn) ==
  /\ requestCounter < MaxRequests
  /\ LET id == requestCounter + 1
         payload == Payloads[pn]
         m == EvaluateAutoApproveRules(payload, AutoApproveRules)
         level == ClassifyEscalation(payload)
         Return(resp, fx) ==
           /\ hooks' = (id :> Returned) @@ hooks
           /\ responses' = (id :> resp) @@ responses
           /\ out' = Result("hook", id, pn, resp.decision, fx)
         Await(pc, fx) ==
           /\ hooks' = (id :> InFlight(pc, pn)) @@ hooks
           /\ responses' = (id :> NoResponse) @@ responses
           /\ out' = Result("hook", id, pn, "", fx)
     IN /\ requestCounter' = id
        /\ resolveCalls' = (id :> <<>>) @@ resolveCalls
        /\ warnings' = (id :> 0) @@ warnings
        /\ IF Intercepted(payload)
           THEN /\ IF Len(payload.questions) > 0 /\ chatId
                   THEN Await("asking", <<QuestionMessage(id)>>)
                   ELSE Return(Response("allow",
                          <<"AskUserQuestion intercepted for Telegram">>), <<>>)
                /\ UNCHANGED autoApproveCount
           ELSE IF m = Threw \/ (m = 0 /\ level = "throw")
           THEN /\ Return(ErrorResponse, <<>>)
                /\ UNCHANGED autoApproveCount
           ELSE IF m # 0
           THEN /\ Return(RuleResponse(AutoApproveRules[m]), <<>>)
                /\ UNCHANGED autoApproveCount
           ELSE IF autoApproveMode
           THEN /\ autoApproveCount' = autoApproveCount + 1
                /\ Return(Response("allow", <<"Auto-approved (Allow All mode)">>),
                          IF level \in {"dangerous", "critical"} /\ chatId
                          THEN <<EscalationWarning(id, level)>> ELSE <<>>)
           ELSE IF ~chatId
           THEN /\ Return(Response("deny", <<"No Telegram chat connected">>), <<>>)
                /\ UNCHANGED autoApproveCount
           ELSE /\ Await("sending", <<ApprovalMessage(id, level)>>)
                /\ UNCHANGED autoApproveCount
  /\ UNCHANGED <<pendingApprovals, timers, pendingQuestions, autoApproveMode,
                 chatId, userRules, pendingCustomInput,
                 sessionVars, now, limiterVars>>

\* requestApproval after its sendMessage completed: register and arm timers
ApprovalSent(id) ==
  /\ id \in DOMAIN hooks
  /\ hooks[id].pc = "sending"
  /\ now + AUTO_DENY_MS <= MaxClock
  /\ hooks' = [hooks EXCEPT ![id].pc = "waiting"]
  /\ pendingApprovals' = (id :> [toolName |-> Payloads[hooks[id].payload].tool_name,
                                 timestamp |-> now]) @@ pendingApprovals
  /\ timers' = timers \cup ApprovalTimers(id, now)
  /\ out' = Result("approvalSent", id, "", "", <<>>)
  /\ UNCHANGED <<requestCounter, responses, resolveCalls, warnings,
                 pendingQuestions, autoApproveMode, autoApproveCount, chatId,
                 userRules, pendingCustomInput,
                 sessionVars, now, limiterVars>>

\* requestApproval's sendMessage rejected: the hook's catch answers deny
ApprovalSendFailed(id) ==
  /\ id \in DOMAIN hooks
  /\ hooks[id].pc = "sending"
  /\ hooks' = [hooks EXCEPT ![id] = Returned]
  /\ responses' = [responses EXCEPT ![id] =
                     Response("deny", <<"Error processing request">>)]
  /\ out' = Result("approvalSendFailed", id, "", "deny", <<>>)
  /\ UNCHANGED <<requestCounter, pendingApprovals, timers, resolveCalls,
                 warnings, pendingQuestions, autoApproveMode, autoApproveCount,
                 chatId, userRules, pendingCustomInput,
                 sessionVars, now, limiterVars>>

\* a JavaScript Set of option indices: its elements in insertion order
SetHas(set, x) == \E i \in 1..Len(set) : set[i] = x
SetAdd(set, x) == IF SetHas(set, x) THEN set ELSE Append(set, x)
SetDelete_Keep(set, x) == set

SetDelete(set, x) == SelectSeq(set, LAMBDA y : y # x)
Elements(set) == {set[i] : i \in 1..Len(set)}

\* the pending state handleAskUserQuestion creates: an empty selection set
\* for each question (indexed from 0), no custom text
NewPending(payload) ==
  [questions |-> payload.questions,
   sessionCwd |-> payload.cwd,
   selections |-> [q \in 0..(Len(payload.questions) - 1) |-> <<>>],
   customTexts |-> <<>>]

\* handleAskUserQuestion after one question message was sent: send the
\* next, or register the question set, arm its expiry and answer allow
QuestionSent(id) ==
  /\ id \in DOMAIN hooks
  /\ hooks[id].pc = "asking"
  /\ IF hooks[id].sent + 1 < Len(Payloads[hooks[id].payload].questions)
     THEN /\ hooks' = [hooks EXCEPT ![id].sent = @ + 1]
          /\ out' = Result("questionSent", id, "", "", <<QuestionMessage(id)>>)
          /\ UNCHANGED <<responses, pendingQuestions, timers>>
     ELSE /\ now + QUESTION_EXPIRY_MS <= MaxClock
          /\ hooks' = [hooks EXCEPT ![id] = Returned]
          /\ pendingQuestions' =
                (id :> NewPending(Payloads[hooks[id].payload])) @@ pendingQuestions
          /\ timers' = timers \cup
                {[id |-> id, kind |-> "expire", due |-> now + QUESTION_EXPIRY_MS]}
          /\ responses' = [responses EXCEPT ![id] = Response("allow",
                             <<"AskUserQuestion intercepted for Telegram">>)]
          /\ out' = Result("questionSent", id, "", "allow", <<>>)
  /\ UNCHANGED <<requestCounter, pendingApprovals, resolveCalls, warnings,
                 autoApproveMode, autoApproveCount, chatId, userRules,
                 pendingCustomInput,
                 sessionVars, now, limiterVars>>

\* request.resolve(decision): the promise settles on the first call only,
\* and the hook then returns the decision
ResolveApproval(id, decision) ==
  /\ resolveCalls' = [resolveCalls EXCEPT ![id] = Append(@, decision)]
  /\ responses' = IF resolveCalls[id] = <<>>
                  THEN [responses EXCEPT ![id] = TelegramResponse(decision)]
                  ELSE responses
  /\ hooks' = [hooks EXCEPT ![id] = Returned]

\* callback_query:data handler for the data action:id
Callback(auth, action, id) ==
  /\ IF ~auth
     THEN /\ out' = Result("callback", id, action, "Unauthorized", <<>>)
          /\ UNCHANGED <<hooks, responses, resolveCalls, pendingApprovals,
                         autoApproveMode, autoApproveCount>>
     ELSE IF action = "allowall"
     THEN /\ autoApproveMode' = TRUE
          /\ IF HasPending(id)
             THEN /\ ResolveApproval(id, "allow")
                  /\ pendingApprovals' = DeletePending(pendingApprovals, id)
                  /\ autoApproveCount' = 1
                  /\ out' = Result("callback", id, action, "Auto-approve enabled!",
                        ButtonResolution(id, "allow") \o
                          <<EditMessage(id, "Auto-Approve Mode ENABLED")>>)
             ELSE /\ autoApproveCount' = 0
                  /\ out' = Result("callback", id, action, "Auto-approve enabled!", <<>>)
                  /\ UNCHANGED <<hooks, responses, resolveCalls, pendingApprovals>>
     ELSE IF ~HasPending(id)
     THEN /\ out' = Result("callback", id, action, "Request expired or not found", <<>>)
          /\ UNCHANGED <<hooks, responses, resolveCalls, pendingApprovals,
                         autoApproveMode, autoApproveCount>>
     ELSE /\ ResolveApproval(id, action)
          /\ pendingApprovals' = DeletePending(pendingApprovals, id)
          /\ out' = Result("callback", id, action,
                IF action = "allow" THEN "Approved!" ELSE "Denied!",
                ButtonResolution(id, action) \o
                  <<EditMessage(id, IF action = "allow" THEN "Approved" ELSE "Denied")>>)
          /\ UNCHANGED <<autoApproveMode, autoApproveCount>>
  /\ UNCHANGED <<requestCounter, timers, warnings, pendingQuestions, chatId,
                 userRules, pendingCustomInput,
                 sessionVars, now, limiterVars>>

Due(id, kind) == {t \in timers : t.id = id /\ t.kind = kind /\ t.due <= now}

\* the 8-minute timer callback
WarnTimer(id) ==
  /\ Due(id, "warn") # {}
  /\ timers' = timers \ Due(id, "warn")
  /\ IF HasPending(id)
     THEN /\ warnings' = [warnings EXCEPT ![id] = @ + 1]
          /\ out' = Result("warnTimer", id, "", "", <<TimeoutWarning(id)>>)
     ELSE /\ out' = Result("warnTimer", id, "", "", <<>>)
          /\ UNCHANGED warnings
  /\ UNCHANGED <<requestCounter, hooks, responses, pendingApprovals,
                 resolveCalls, pendingQuestions, autoApproveMode,
                 autoApproveCount, chatId, userRules, pendingCustomInput,
                 sessionVars, now, limiterVars>>

\* a 10-minute callback that forgets the request without answering the hook
DenyTimer_Silent(id) ==
  /\ Due(id, "deny") # {}
  /\ timers' = timers \ Due(id, "deny")
  /\ IF HasPending(id)
     THEN /\ pendingApprovals' = DeletePending(pendingApprovals, id)
          /\ out' = Result("denyTimer", id, "", "deny",
                <<DeleteCall(id), EditMessage(id, "Timed Out - Auto-Denied")>>)
          /\ UNCHANGED <<hooks, responses, resolveCalls>>
     ELSE /\ out' = Result("denyTimer", id, "", "", <<>>)
          /\ UNCHANGED <<hooks, responses, resolveCalls, pendingApprovals>>
  /\ UNCHANGED <<requestCounter, warnings, pendingQuestions, autoApproveMode,
                 autoApproveCount, chatId, userRules, pendingCustomInput,
                 sessionVars, now, limiterVars>>

\* the 10-minute timer callback
DenyTimer(id) ==
  /\ Due(id, "deny") # {}
  /\ timers' = timers \ Due(id, "deny")
  /\ IF HasPending(id)
     THEN /\ pendingApprovals' = DeletePending(pendingApprovals, id)
          /\ ResolveApproval(id, "deny")
          /\ out' = Result("denyTimer", id, "", "deny",
                TimeoutResolution(id) \o
                  <<EditMessage(id, "Timed Out - Auto-Denied")>>)
     ELSE /\ out' = Result("denyTimer", id, "", "", <<>>)
          /\ UNCHANGED <<hooks, responses, resolveCalls, pendingApprovals>>
  /\ UNCHANGED <<requestCounter, warnings, pendingQuestions, autoApproveMode,
                 autoApproveCount, chatId, userRules, pendingCustomInput,
                 sessionVars, now, limiterVars>>

\* the 10-minute expiry of a pending question set
ExpireTimer(id) ==
  /\ Due(id, "expire") # {}
  /\ timers' = timers \ Due(id, "expire")
  /\ pendingQuestions' =
        [k \in DOMAIN pendingQuestions \ {id} |-> pendingQuestions[k]]
  /\ out' = Result("expireTimer", id, "", "", <<>>)
  /\ UNCHANGED <<requestCounter, hooks, responses, pendingApprovals,
                 resolveCalls, warnings, autoApproveMode, autoApproveCount,
                 chatId, userRules, pendingCustomInput,
                 sessionVars, now, limiterVars>>

\* ------------------------------------------------------ question sets
QuestionIndices == 0..1
OptionIndices == 0..1
Texts == {"hi"}

\* the keys written to the terminal
DOWN == "^[[B"
ENTER == "\r"
SPACE == " "

RECURSIVE Repeat(_, _)
Repeat(key, n) == IF n <= 0 THEN "" ELSE key \o Repeat(key, n - 1)

\* multi-select: from position pos, move down to each option of order and
\* toggle it (a negative number of moves is no move)
RECURSIVE ToggleKeys(_, _)
ToggleKeys(order, pos) ==
  IF order = <<>> THEN ""
  ELSE Repeat(DOWN, Head(order) - pos) \o SPACE \o ToggleKeys(Tail(order), Head(order))

SelectedIndices_Unsorted(selected) == SelectSeq(selected, LAMBDA i : i >= 0)

\* Array.from(selected).filter(i => i >= 0).sort((a, b) => a - b)
SelectedIndices(selected) == Ascending({i \in Elements(selected) : i >= 0})

TypeOptionIndex_Last(question) == question.options - 1

\* Math.min(2, question.options.length - 1)
TypeOptionIndex(question) ==
  IF question.options - 1 < 2 THEN question.options - 1 ELSE 2

Choice_OneBased(selected) ==
  IF Len(selected) > 0
  THEN (IF selected[1] < 0 THEN 0 ELSE selected[1]) + 1
  ELSE 0

\* selected.size > 0 ? Math.max(0, Array.from(selected)[0]) : 0
Choice(selected) ==
  IF Len(selected) > 0
  THEN (IF selected[1] < 0 THEN 0 ELSE selected[1])
  ELSE 0

\* the keys of one question in buildKeystrokesForAnswer; selected is the
\* question's selection set, customText is "" when there is none
QuestionKeystrokes(question, selected, customText) ==
  IF SetHas(selected, -1) /\ customText # ""
  THEN Repeat(DOWN, TypeOptionIndex(question))
         \o ENTER \o customText \o ENTER
  ELSE IF question.multiSelect
  THEN ToggleKeys(SelectedIndices(selected), 0) \o ENTER
  ELSE Repeat(DOWN, Choice(selected)) \o ENTER

SelectionOf(pending, q) ==
  IF q \in DOMAIN pending.selections THEN pending.selections[q] ELSE <<>>

CustomTextOf(pending, q) ==
  IF q \in DOMAIN pending.customTexts THEN pending.customTexts[q] ELSE ""

RECURSIVE KeystrokesFrom(_, _)
KeystrokesFrom(pending, q) ==
  IF q >= Len(pending.questions) THEN ""
  ELSE QuestionKeystrokes(pending.questions[q + 1], SelectionOf(pending, q),
                          CustomTextOf(pending, q))
         \o KeystrokesFrom(pending, q + 1)

RECURSIVE KeystrokesDownFrom(_, _)
KeystrokesDownFrom(pending, q) ==
  IF q < 0 THEN ""
  ELSE QuestionKeystrokes(pending.questions[q + 1], SelectionOf(pending, q),
                          CustomTextOf(pending, q))
         \o KeystrokesDownFrom(pending, q - 1)

BuildKeystrokesForAnswer_LastFirst(pending) ==
  KeystrokesDownFrom(pending, Len(pending.questions) - 1)

\* buildKeystrokesForAnswer(pending.questions, pending.selections,
\* pending.customTexts)
BuildKeystrokesForAnswer(pending) == KeystrokesFrom(pending, 0)

AfterSubmit_Always(pq, id, success) ==
  [k \in DOMAIN pq \ {id} |-> pq[k]]

\* the pending-question map after submitAskUserQuestionAnswer: the set is
\* deleted only if sendInput succeeded
AfterSubmit(pq, id, success) ==
  IF success THEN [k \in DOMAIN pq \ {id} |-> pq[k]] ELSE pq

\* submitAskUserQuestionAnswer(id) called by the callback op on the pending
\* map pq, with the texts the callback answers
SubmitAskUserQuestionAnswer(op, arg, id, pq, okText, failText) ==
  LET pending == pq[id]
      s == FindSessionByCwd(pending.sessionCwd)
      keystrokes == BuildKeystrokesForAnswer(pending)
      success == s # 0 /\ CanSend(s)
  IN /\ pendingQuestions' = AfterSubmit(pq, id, success)
     /\ IF success
        THEN /\ sess' = [sess EXCEPT ![s].status = "active",
                                     ![s].currentPrompt = NoPrompt]
             /\ lastParsed' = [lastParsed EXCEPT ![s].input = TRUE]
             /\ out' = Result(op, id, arg, okText,
                   <<PtyWrite(s, keystrokes)>> \o
                   (IF chatId THEN <<EditMessage(id, "Answer submitted")>>
                    ELSE <<>>))
        ELSE /\ out' = Result(op, id, arg, failText, <<>>)
             /\ UNCHANGED <<sess, lastParsed>>

\* callback_query:data askq:id:qi:oi
AskqSelect(auth, id, qi, oi) ==
  LET arg == "askq:" \o ToString(qi) \o ":" \o ToString(oi) IN
  /\ IF ~auth
     THEN /\ out' = Result("askqSelect", id, arg, "Unauthorized", <<>>)
          /\ UNCHANGED <<pendingQuestions, sess, lastParsed>>
     ELSE IF id \notin DOMAIN pendingQuestions
     THEN /\ out' = Result("askqSelect", id, arg, "Question expired or not found", <<>>)
          /\ UNCHANGED <<pendingQuestions, sess, lastParsed>>
     ELSE IF qi >= Len(pendingQuestions[id].questions)
     THEN /\ out' = Result("askqSelect", id, arg, "Invalid question", <<>>)
          /\ UNCHANGED <<pendingQuestions, sess, lastParsed>>
     ELSE LET pending == pendingQuestions[id]
              old == SelectionOf(pending, qi)
              toggled == IF SetHas(old, oi) THEN SetDelete(old, oi)
                         ELSE SetAdd(old, oi)
              Select(sel) ==
                [pendingQuestions EXCEPT ![id].selections = (qi :> sel) @@ @]
          IN IF pending.questions[qi + 1].multiSelect
             THEN /\ pendingQuestions' = Select(toggled)
                  /\ out' = Result("askqSelect", id, arg, "Toggled",
                                   <<EditMessage(id, "question")>>)
                  /\ UNCHANGED <<sess, lastParsed>>
             ELSE IF Len(pending.questions) = 1
             THEN SubmitAskUserQuestionAnswer("askqSelect", arg, id, Select(<<oi>>),
                    "Answer submitted!", "Failed to submit")
             ELSE /\ pendingQuestions' = Select(<<oi>>)
                  /\ out' = Result("askqSelect", id, arg, "Selected",
                                   <<EditMessage(id, "question")>>)
                  /\ UNCHANGED <<sess, lastParsed>>
  /\ UNCHANGED <<requestCounter, hooks, responses, pendingApprovals, timers,
                 resolveCalls, warnings, pendingCustomInput, autoApproveMode,
                 autoApproveCount, chatId, userRules, sessionCounter, sessions,
                 exited, now, limiterVars>>

\* callback_query:data askq_other:id:qi
AskqOther(auth, id, qi) ==
  /\ IF ~auth
     THEN /\ out' = Result("askqOther", id, "", "Unauthorized", <<>>)
          /\ UNCHANGED pendingCustomInput
     ELSE IF id \notin DOMAIN pendingQuestions
     THEN /\ out' = Result("askqOther", id, "", "Question expired or already answered", <<>>)
          /\ UNCHANGED pendingCustomInput
     ELSE /\ pendingCustomInput' = [requestId |-> id, questionIndex |-> qi]
          /\ out' = Result("askqOther", id, "", "Type your answer", <<>>)
  /\ UNCHANGED <<requestCounter, hooks, responses, pendingApprovals, timers,
                 resolveCalls, warnings, pendingQuestions, autoApproveMode,
                 autoApproveCount, chatId, userRules, sessionVars, now, limiterVars>>

\* message:text from the authorized chat while a custom answer is awaited
\* for a set that is still pending: the text becomes the answer of that
\* question and the question is marked answered with -1
CustomText(text) ==
  LET id == pendingCustomInput.requestId
      qi == pendingCustomInput.questionIndex
  IN /\ pendingCustomInput # NoCustomInput
     /\ id \in DOMAIN pendingQuestions
     /\ pendingQuestions' =
           [pendingQuestions EXCEPT ![id].customTexts = (qi :> text) @@ @,
                                    ![id].selections = (qi :> <<-1>>) @@ @]
     /\ pendingCustomInput' = NoCustomInput
     /\ out' = Result("customText", id, text, "Custom answer", <<>>)
     /\ UNCHANGED <<requestCounter, hooks, responses, pendingApprovals, timers,
                    resolveCalls, warnings, autoApproveMode, autoApproveCount,
                    chatId, userRules, sessionVars, now, limiterVars>>

\* the text answering a submit with an unanswered question
MissingText ==
  [q \in QuestionIndices |->
     "Please select an option for: Question " \o ToString(q + 1)]

FirstUnanswered_Last(pending) ==
  LET missing == {q \in 0..(Len(pending.questions) - 1) :
                    SelectionOf(pending, q) = <<>>}
  IN IF missing = {} THEN -1 ELSE CHOOSE q \in missing : \A r \in missing : q >= r

\* the first question without a selection, -1 when all are answered
FirstUnanswered(pending) ==
  LET missing == {q \in 0..(Len(pending.questions) - 1) :
                    SelectionOf(pending, q) = <<>>}
  IN IF missing = {} THEN -1 ELSE CHOOSE q \in missing : \A r \in missing : q <= r

\* callback_query:data askq_submit:id
AskqSubmit(auth, id) ==
  /\ IF ~auth
     THEN /\ out' = Result("askqSubmit", id, "", "Unauthorized", <<>>)
          /\ UNCHANGED <<pendingQuestions, sess, lastParsed>>
     ELSE IF id \notin DOMAIN pendingQuestions
     THEN /\ out' = Result("askqSubmit", id, "", "Question expired or not found", <<>>)
          /\ UNCHANGED <<pendingQuestions, sess, lastParsed>>
     ELSE IF FirstUnanswered(pendingQuestions[id]) # -1
     THEN /\ out' = Result("askqSubmit", id, "",
                           MissingText[FirstUnanswered(pendingQuestions[id])], <<>>)
          /\ UNCHANGED <<pendingQuestions, sess, lastParsed>>
     ELSE SubmitAskUserQuestionAnswer("askqSubmit", "", id, pendingQuestions,
            "Answer submitted!", "Failed to submit")
  /\ UNCHANGED <<requestCounter, hooks, responses, pendingApprovals, timers,
                 resolveCalls, warnings, pendingCustomInput, autoApproveMode,
                 autoApproveCount, chatId, userRules, sessionCounter, sessions,
                 exited, now, limiterVars>>

\* /allowall and /stopallow from an authorized chat
AllowAllCommand ==
  /\ ~autoApproveMode
  /\ autoApproveMode' = TRUE
  /\ autoApproveCount' = 0
  /\ out' = Result("allowall", 0, "", "", <<>>)
  /\ UNCHANGED <<requestCounter, hooks, responses, pendingApprovals, timers,
                 resolveCalls, warnings, pendingQuestions, chatId, userRules,
                 pendingCustomInput,
                 sessionVars, now, limiterVars>>

StopAllowCommand ==
  /\ autoApproveMode
  /\ autoApproveMode' = FALSE
  /\ autoApproveCount' = 0
  /\ out' = Result("stopallow", 0, "", "", <<>>)
  /\ UNCHANGED <<requestCounter, hooks, responses, pendingApprovals, timers,
                 resolveCalls, warnings, pendingQuestions, chatId, userRules,
                 pendingCustomInput,
                 sessionVars, now, limiterVars>>

\* /start registers the chat
StartCommand ==
  /\ ~chatId
  /\ chatId' = TRUE
  /\ out' = Result("start", 0, "", "", <<>>)
  /\ UNCHANGED <<requestCounter, hooks, responses, pendingApprovals, timers,
                 resolveCalls, warnings, pendingQuestions, autoApproveMode,
                 autoApproveCount, userRules, pendingCustomInput,
                 sessionVars, now, limiterVars>>

\* time passes; a timer fires when it is due, before time passes further
TimerTick ==
  /\ now + TimerTickMs <= MaxClock
  /\ \A t \in timers : t.due >= now + TimerTickMs
  /\ now' = now + TimerTickMs
  /\ out' = Result("tick", 0, "", TRUE, <<>>)
  /\ UNCHANGED <<brokerVars, sessionVars, limiterVars>>

\* callback data whose first part is none of the actions the handler names
\* reaches the handler's last branch like allow and deny do
CallbackActions == Actions \cup {"retry"}

CallbackNext ==
  \/ HookPermission("write")
  \/ \E id \in RequestIds : ApprovalSent(id)
  \/ \E auth \in BOOLEAN, action \in CallbackActions, id \in RequestIds :
        Callback(auth, action, id)
  \/ \E id \in RequestIds : WarnTimer(id)
  \/ \E id \in RequestIds : DenyTimer(id)
  \/ StopAllowCommand
  \/ TimerTick

CallbackSpec == Init /\ [][CallbackNext]_vars

\* the server starts with or without a restored chat id and with one of the
\* user rule lists
BrokerInit ==
  /\ Constructed
  /\ chatId \in BOOLEAN
  /\ userRules \in UserRuleSets

TimerStep == \E id \in RequestIds : WarnTimer(id) \/ DenyTimer(id) \/ ExpireTimer(id)

BrokerNext ==
  \/ \E pn \in BrokerPayloads : HookPermission(pn)
  \/ \E id \in RequestIds : ApprovalSent(id)
  \/ \E id \in RequestIds : ApprovalSendFailed(id)
  \/ \E id \in RequestIds : QuestionSent(id)
  \/ \E auth \in BOOLEAN, action \in Actions, id \in RequestIds :
        Callback(auth, action, id)
  \/ \E id \in RequestIds : WarnTimer(id)
  \/ \E id \in RequestIds : DenyTimer(id)
  \/ \E id \in RequestIds : ExpireTimer(id)
  \/ AllowAllCommand
  \/ StopAllowCommand
  \/ StartCommand
  \/ TimerTick

BrokerSpec == BrokerInit /\ [][BrokerNext]_vars

\* armed timers fire and time passes
BrokerFairSpec ==
  /\ BrokerSpec
  /\ WF_vars(TimerStep)
  /\ WF_vars(TimerTick)

\* the question sets with one session: the server has a connected chat
QuestionNext ==
  \/ \E pn \in QuestionPayloads :
        requestCounter < MaxQuestionSets /\ HookPermission(pn)
  \/ \E id \in RequestIds : QuestionSent(id)
  \/ \E auth \in BOOLEAN, id \in RequestIds, qi \in QuestionIndices,
        oi \in OptionIndices : AskqSelect(auth, id, qi, oi)
  \/ \E auth \in BOOLEAN, id \in RequestIds, qi \in QuestionIndices :
        AskqOther(auth, id, qi)
  \/ \E text \in Texts : CustomText(text)
  \/ \E auth \in BOOLEAN, id \in RequestIds : AskqSubmit(auth, id)
  \/ \E id \in RequestIds : ExpireTimer(id)
  \/ \E cwd \in Cwds : sessionCounter < MaxSessions /\ Spawn("default", cwd)
  \/ \E s \in SessionIds : Kill(s)
  \/ TimerTick

QuestionSpec == Init /\ [][QuestionNext]_vars

\* the answers to questions with up to four options: the buttons of a
\* question message carry the index of the question and of its options
KeyOptionIndices == 0..3

KeysNext ==
  \/ \E pn \in KeyPayloads :
        requestCounter < MaxQuestionSets /\ HookPermission(pn)
  \/ \E id \in RequestIds : QuestionSent(id)
  \/ \E id \in RequestIds, qi \in QuestionIndices, oi \in KeyOptionIndices :
        /\ id \in DOMAIN pendingQuestions
        /\ qi < Len(pendingQuestions[id].questions)
        /\ oi < pendingQuestions[id].questions[qi + 1].options
        /\ AskqSelect(TRUE, id, qi, oi)
  \/ \E id \in RequestIds, qi \in QuestionIndices :
        /\ id \in DOMAIN pendingQuestions
        /\ qi < Len(pendingQuestions[id].questions)
        /\ AskqOther(TRUE, id, qi)
  \/ \E text \in Texts : CustomText(text)
  \/ \E id \in RequestIds : AskqSubmit(TRUE, id)
  \/ \E cwd \in Cwds : sessionCounter < MaxSessions /\ Spawn("default", cwd)

KeysSpec == Init /\ [][KeysNext]_vars

\* a session that is killed or exits while approvals and question sets are
\* pending
LifecyclePayloads == {"write", "ask1"}

LifecycleNext ==
  \/ \E pn \in LifecyclePayloads : HookPermission(pn)
  \/ \E id \in RequestIds : ApprovalSent(id)
  \/ \E id \in RequestIds : QuestionSent(id)
  \/ \E action \in {"allow", "deny"}, id \in RequestIds :
        Callback(TRUE, action, id)
  \/ \E id \in RequestIds : AskqSubmit(TRUE, id)
  \/ \E id \in RequestIds : WarnTimer(id)
  \/ \E id \in RequestIds : DenyTimer(id)
  \/ \E id \in RequestIds : ExpireTimer(id)
  \/ sessionCounter < MaxSessions /\ Spawn("default", "/w")
  \/ \E s \in SessionIds : Kill(s)
  \/ KillAll
  \/ \E s \in SessionIds, exitCode \in ExitCodes : OnExit(s, exitCode)
  \/ TimerTick

LifecycleSpec == Init /\ [][LifecycleNext]_vars

\* the rule engine and the classifier on their own: the server is started
\* with any of the rule lists and receives any of the requests
PolicyInit ==
  /\ Constructed
  /\ chatId \in BOOLEAN
  /\ userRules \in PolicyRuleSets

PolicyNext ==
  \/ \E pn \in PayloadNames : HookPermission(pn)
  \/ AllowAllCommand
  \/ StopAllowCommand

PolicySpec == PolicyInit /\ [][PolicyNext]_vars

\* AskUserQuestion requests under user rules that deny them, with and
\* without a chat, in and out of Allow-All mode
InterceptPayloads == {"ask0", "ask1", "ask"}

InterceptRuleSets ==
  {<<>>,
   <<MakeRule("deny-ask", {"toolName"}, {"AskUserQuestion"}, "", "", "",
              "deny")>>,
   <<MakeRule("deny-in-w", {"cwdPattern"}, {}, "^/w", "", "", "deny")>>}

InterceptInit ==
  /\ Constructed
  /\ chatId \in BOOLEAN
  /\ userRules \in InterceptRuleSets

InterceptNext ==
  \/ \E pn \in InterceptPayloads : HookPermission(pn)
  \/ \E id \in RequestIds : QuestionSent(id)
  \/ \E id \in RequestIds : ExpireTimer(id)
  \/ AllowAllCommand
  \/ StopAllowCommand
  \/ StartCommand
  \/ TimerTick

InterceptSpec == InterceptInit /\ [][InterceptNext]_vars

\* ------------------------------------------------------- RateLimiter
MaxLimiterTicks == 4
LimiterKeys == {"10.0.0.1", "10.0.0.2"}
\* the options the limiters of a run are constructed with
LimiterOpts ==
  {[maxRequests |-> 1, windowMs |-> 2], [maxRequests |-> 2, windowMs |-> 2],
   [maxRequests |-> 2, windowMs |-> 3]}

\* this.requests.get(key), with the empty list for undefined
Timestamps(l, key) ==
  IF key \in DOMAIN l.requests THEN l.requests[key] ELSE <<>>

\* timestamps.findIndex(t => t > cutoff): zero-based, -1 when none
RECURSIVE FindIndexFrom(_, _, _)
FindIndexFrom(timestamps, cutoff, i) ==
  IF i > Len(timestamps) THEN -1
  ELSE IF timestamps[i] > cutoff THEN i - 1
  ELSE FindIndexFrom(timestamps, cutoff, i + 1)

FindIndex(timestamps, cutoff) == FindIndexFrom(timestamps, cutoff, 1)

\* the list after "Remove expired timestamps"
Expire(timestamps, cutoff) ==
  LET validIndex == FindIndex(timestamps, cutoff)
  IN IF validIndex > 0
     THEN SubSeq(timestamps, validIndex + 1, Len(timestamps))
     ELSE IF validIndex = -1 THEN <<>>
     ELSE timestamps

\* a limit that lets one request more pass
IsLimited_Above(timestamps, maxRequests) == Len(timestamps) > maxRequests

IsLimited(timestamps, maxRequests) == Len(timestamps) >= maxRequests

\* timestamps.filter(t => t > cutoff)
Valid(timestamps, cutoff) == SelectSeq(timestamps, LAMBDA t : t > cutoff)

Max(a, b) == IF a >= b THEN a ELSE b

\* remaining(key) at the time t
RemainingAt(l, key, t) ==
  IF key \notin DOMAIN l.requests THEN l.maxRequests
  ELSE Max(0, l.maxRequests - Len(Valid(l.requests[key], t - l.windowMs)))

\* check(key)
Check(key) ==
  /\ LET timestamps == Expire(Timestamps(limiter, key), now - limiter.windowMs)
     IN IF IsLimited(timestamps, limiter.maxRequests)
        THEN /\ limiter' = [limiter EXCEPT
                              !.requests = (key :> timestamps) @@ @]
             /\ out' = Result("check", 0, key, FALSE, <<>>)
             /\ UNCHANGED granted
        ELSE /\ limiter' = [limiter EXCEPT
                              !.requests = (key :> Append(timestamps, now)) @@ @]
             /\ granted' = (key :> Append(IF key \in DOMAIN granted
                                           THEN granted[key] ELSE <<>>, now))
                              @@ granted
             /\ out' = Result("check", 0, key, TRUE, <<>>)
  /\ UNCHANGED <<sessionVars, brokerVars, now>>

\* remaining(key)
Remaining(key) ==
  /\ out' = Result("remaining", 0, key, RemainingAt(limiter, key, now), <<>>)
  /\ UNCHANGED <<sessionVars, brokerVars, limiterVars, now>>

\* cleanup(), run by the server's interval
CleanupLimiter ==
  LET cutoff == now - limiter.windowMs
      kept == {key \in DOMAIN limiter.requests :
                 Valid(limiter.requests[key], cutoff) # <<>>}
  IN /\ limiter' = [limiter EXCEPT
                      !.requests = [key \in kept |-> Valid(@[key], cutoff)]]
     /\ out' = Result("cleanupLimiter", 0, "", TRUE, <<>>)
     /\ UNCHANGED <<sessionVars, brokerVars, granted, now>>

\* Date.now() moves on
LimiterTick ==
  /\ now + 1 <= TickMs + MaxLimiterTicks
  /\ now' = now + 1
  /\ out' = Result("tick", 0, "", TRUE, <<>>)
  /\ UNCHANGED <<sessionVars, brokerVars, limiterVars>>

LimiterInit ==
  /\ ManagersConstructed
  /\ chatId = TRUE
  /\ userRules = <<>>
  /\ limiter \in {NewLimiter(opts) : opts \in LimiterOpts}
  /\ granted = <<>>

LimiterNext ==
  \/ \E key \in LimiterKeys : Check(key)
  \/ \E key \in LimiterKeys : Remaining(key)
  \/ CleanupLimiter
  \/ LimiterTick

LimiterSpec == LimiterInit /\ [][LimiterNext]_vars

\* ------------------------------------------------- broker claims (C1..C4)
Requested == DOMAIN resolveCalls

\* a step of a button callback or a timer callback for request id
ResolutionAttempt(id) ==
  /\ out'.op \in {"callback", "warnTimer", "denyTimer"}
  /\ out'.sid = id

\* C1: over any interleaving of allow / deny / allow-all callbacks and the
\* 8- and 10-minute timers, resolve is invoked at most once per request, the
\* hook caller receives that first decision, and every later resolution
\* attempt on the id leaves the pending map and the decision unchanged.
C1_ResolvedAtMostOnce ==
  [][\A id \in DOMAIN resolveCalls' :
       /\ Len(resolveCalls'[id]) <= 1
       /\ resolveCalls'[id] # <<>> =>
             responses'[id].decision = resolveCalls'[id][1]
       /\ (id \in Requested /\ resolveCalls[id] # <<>>) =>
             /\ responses'[id] = responses[id]
             /\ resolveCalls'[id] = resolveCalls[id]
             /\ ResolutionAttempt(id) => pendingApprovals' = pendingApprovals]_vars

\* a button callback arrived for a request that was already resolved
C1_Witness ==
  /\ out.op = "callback"
  /\ out.ret = "Request expired or not found"
  /\ out.sid \in Requested
  /\ resolveCalls[out.sid] # <<>>

\* C2: a pending approval registered at T that gets no button callback
\* causes exactly one warning, at T+8min, that leaves it pending; at T+10min
\* it is removed and resolved with deny; a button callback after that finds
\* no entry and resolves nothing.
C2_TimeoutScenario ==
  [][/\ \A id \in DOMAIN pendingApprovals :
          LET T == pendingApprovals[id].timestamp IN
          /\ (out'.op = "warnTimer" /\ out'.sid = id) =>
                /\ now = T + 480000
                /\ out'.fx = <<TimeoutWarning(id)>>
                /\ warnings[id] = 0 /\ warnings'[id] = 1
                /\ pendingApprovals' = pendingApprovals
                /\ responses' = responses /\ resolveCalls' = resolveCalls
          /\ (out'.op = "denyTimer" /\ out'.sid = id) =>
                /\ now = T + 600000
                /\ warnings'[id] = 1
                /\ id \notin DOMAIN pendingApprovals'
                /\ resolveCalls'[id] = <<"deny">>
                /\ responses'[id].decision = "deny"
          /\ now' <= T + 600000
     /\ \A id \in Requested \ DOMAIN pendingApprovals :
          (out'.op = "callback" /\ out'.sid = id /\ out'.arg # "allowall") =>
             /\ out'.fx = <<>>
             /\ pendingApprovals' = pendingApprovals
             /\ responses' = responses /\ resolveCalls' = resolveCalls]_vars

\* the 10-minute timer has just auto-denied a request that had been warned
C2_Witness ==
  /\ out.op = "denyTimer"
  /\ out.ret = "deny"
  /\ warnings[out.sid] = 1
  /\ resolveCalls[out.sid] = <<"deny">>

C4_RuleMatchReturns ==
  [][\A pn \in PayloadNames :
       (out'.op = "hook" /\ out'.arg = pn) =>
         LET id == out'.sid
             rules == DefaultRules \o userRules
             hits == {i \in 1..Len(rules) : MatchesRule(Payloads[pn], rules[i])}
         IN /\ hits # {} =>
                 /\ \E i \in hits :
                      /\ \A j \in hits : i <= j
                      /\ responses'[id].decision = rules[i].action
                 /\ hooks'[id].pc = "returned"
                 /\ pendingApprovals' = pendingApprovals
                 /\ timers' = timers
                 /\ out'.fx = <<>>
            /\ pn = "read" => responses'[id] = Response("allow", <<"Rule", "safe-reads">>)]_vars

\* C4 (amended): when an auto-approve rule matches a request for a tool
\* other than AskUserQuestion, the hook returns the first matching rule's
\* action at once, with no pending entry, no timer and no message to the
\* decision channel; a Read request is allowed by safe-reads.  (An
\* AskUserQuestion request is intercepted before the rules are evaluated.)
C4_RuleMatchReturnsExceptAsk ==
  [][\A pn \in PayloadNames :
       (out'.op = "hook" /\ out'.arg = pn
          /\ Payloads[pn].tool_name # "AskUserQuestion") =>
         LET id == out'.sid
             rules == DefaultRules \o userRules
             hits == {i \in 1..Len(rules) : MatchesRule(Payloads[pn], rules[i])}
         IN /\ hits # {} =>
                 /\ \E i \in hits :
                      /\ \A j \in hits : i <= j
                      /\ responses'[id].decision = rules[i].action
                 /\ hooks'[id].pc = "returned"
                 /\ pendingApprovals' = pendingApprovals
                 /\ timers' = timers
                 /\ out'.fx = <<>>
            /\ pn = "read" => responses'[id] = Response("allow", <<"Rule", "safe-reads">>)]_vars

\* a Read request was allowed by safe-reads although a user rule denies
\* everything in its directory
C4_Witness ==
  /\ out.op = "hook"
  /\ out.arg = "read"
  /\ out.ret = "allow"
  /\ userRules # <<>>
  /\ MatchesRule(Payloads["read"], userRules[1])

\* --------------------------------------------- broker claims (C14..C16)
\* C14: once a button callback has resolved a request, its 8-minute
\* callback sends no warning and its 10-minute callback neither resolves
\* nor deletes nor edits anything; once the request is resolved (by the
\* 10-minute timer in particular), a button callback for it calls no
\* resolve and deletes nothing.
C14_LoserTakesNoAction ==
  [][\A id \in Requested :
       (resolveCalls[id] # <<>> /\ out'.sid = id) =>
         /\ out'.op = "warnTimer" =>
              /\ out'.fx = <<>>
              /\ warnings' = warnings
         /\ out'.op = "denyTimer" =>
              /\ out'.fx = <<>>
              /\ out'.ret = ""
              /\ resolveCalls' = resolveCalls
              /\ pendingApprovals' = pendingApprovals
              /\ responses' = responses
         /\ out'.op = "callback" =>
              /\ \A i \in 1..Len(out'.fx) :
                    out'.fx[i].kind \notin {"resolve", "delete", "editMessage"}
              /\ resolveCalls' = resolveCalls
              /\ pendingApprovals' = pendingApprovals
              /\ responses' = responses]_vars

\* the 10-minute callback of a request the operator allowed earlier has
\* just run and did nothing
C14_Witness ==
  /\ out.op = "denyTimer"
  /\ out.fx = <<>>
  /\ out.sid \in Requested
  /\ resolveCalls[out.sid] = <<"allow">>
  /\ warnings[out.sid] = 0

\* C15: an authorized decision callback (allow, deny or allow-all) whose
\* request id is not in the pending-approval map changes neither the map,
\* the auto-approve mode nor the auto-approve counter, and is answered with
\* the expired / not-found notification.
C15_UnknownIdNoOp ==
  [][(/\ out'.op = "callback"
      /\ out'.ret # "Unauthorized"
      /\ out'.sid \notin DOMAIN pendingApprovals) =>
        /\ pendingApprovals' = pendingApprovals
        /\ autoApproveMode' = autoApproveMode
        /\ autoApproveCount' = autoApproveCount
        /\ out'.ret = "Request expired or not found"]_vars

FxKinds(fx) == [i \in 1..Len(fx) |-> fx[i].kind]

\* C16 (as stated): every resolution path removes the entry from the
\* pending-approval map before it invokes the entry's resolve function.
C16_DeleteBeforeResolve ==
  [][\A i \in 1..Len(out'.fx) :
       out'.fx[i].kind = "resolve" =>
         \E j \in 1..(i - 1) :
           out'.fx[j].kind = "delete" /\ out'.fx[j].sid = out'.fx[i].sid]_vars

\* C16 (amended): every resolution path removes the entry in the same
\* synchronous block in which it invokes resolve, before any message is
\* edited: the 10-minute callback deletes and then resolves, the allow,
\* deny and allow-all button callbacks resolve and then delete.
C16_DeleteWithResolve ==
  [][(\E i \in 1..Len(out'.fx) : out'.fx[i].kind = "resolve") =>
       /\ out'.sid \in DOMAIN pendingApprovals
       /\ out'.sid \notin DOMAIN pendingApprovals'
       /\ \A i \in 1..Len(out'.fx) : out'.fx[i].sid = out'.sid
       /\ out'.op = "denyTimer" =>
            FxKinds(out'.fx) = <<"delete", "resolve", "editMessage">>
       /\ out'.op = "callback" =>
            FxKinds(out'.fx) = <<"resolve", "delete", "editMessage">>
       /\ out'.op \in {"denyTimer", "callback"}]_vars

\* the allow-all button has just resolved a pending request: resolve was
\* invoked first and the entry removed next
C16_Witness ==
  /\ out.op = "callback"
  /\ out.arg = "allowall"
  /\ Len(out.fx) = 3
  /\ out.fx[1] = ResolveCall(out.sid, "allow")
  /\ out.fx[2] = DeleteCall(out.sid)
  /\ out.sid \notin DOMAIN pendingApprovals

\* --------------------------------------- rule engine claims (C17..C20)
ByRule(resp) == Len(resp.reason) = 2 /\ resp.reason[1] = "Rule"

FirstOf(S) == CHOOSE i \in S : \A j \in S : i <= j

\* C17: the rules are evaluated as the default rules followed by the user
\* rules and the first match is returned: when a default rule and a user
\* rule both match a request the first matching default rule decides, and
\* when only user rules match the first of them decides.
C17_DefaultFirst ==
  [][\A pn \in PayloadNames :
       (/\ out'.op = "hook" /\ out'.arg = pn
        /\ Payloads[pn].tool_name # "AskUserQuestion") =>
         LET p == Payloads[pn]
             d == {i \in 1..Len(DefaultRules) : MatchesRule(p, DefaultRules[i])}
             u == {j \in 1..Len(userRules) :
                     /\ MatchesRule(p, userRules[j])
                     /\ \A k \in 1..(j - 1) :
                          MatchOutcome(p, userRules[k]) = "false"}
         IN /\ d # {} =>
                 responses'[out'.sid] = RuleResponse(DefaultRules[FirstOf(d)])
            /\ (d = {} /\ u # {} /\ p.has_input) =>
                 responses'[out'.sid] = RuleResponse(userRules[FirstOf(u)])]_vars

\* a recursive force delete was denied by the default rule although the
\* user rule that allows Bash matches it too
C17_Witness ==
  /\ out.op = "hook"
  /\ out.arg = "bash_rm_rf"
  /\ out.ret = "deny"
  /\ userRules # <<>>
  /\ userRules[1].action = "allow"
  /\ MatchesRule(Payloads["bash_rm_rf"], userRules[1])

\* every criterion present on the rule holds for the request
AllCriteriaHold(p, r) ==
  /\ "toolName" \in r.has => p.tool_name \in r.toolName
  /\ "cwdPattern" \in r.has => RegexTest(r.cwdPattern, p.cwd)
  /\ "commandPattern" \in r.has => RegexTest(r.commandPattern, p.command)
  /\ "filePattern" \in r.has => RegexTest(r.filePattern, p.file_path)

\* C18: when evaluation returns, a rule matches a request if and only if
\* every criterion present on it holds (a rule without criteria matches
\* every request), the hook answers by a rule for which this is so, and
\* evaluateAutoApproveRules returns null if and only if no rule matches.
C18_Conjunctive ==
  [][\A pn \in PayloadNames :
       (/\ out'.op = "hook" /\ out'.arg = pn /\ out'.ret # "error"
        /\ Payloads[pn].tool_name # "AskUserQuestion") =>
         LET p == Payloads[pn]
             rules == AutoApproveRules
             m == EvaluateAutoApproveRules(p, rules)
             resp == responses'[out'.sid]
         IN /\ m # Threw
            /\ (m = 0) <=> (\A i \in 1..Len(rules) : ~AllCriteriaHold(p, rules[i]))
            /\ m > 0 =>
                 /\ AllCriteriaHold(p, rules[m])
                 /\ resp = RuleResponse(rules[m])
            /\ ByRule(resp) <=> (\E i \in 1..Len(rules) : AllCriteriaHold(p, rules[i]))
            /\ \A i \in 1..(IF m = 0 THEN Len(rules) ELSE m) :
                 /\ MatchesRule(p, rules[i]) <=> AllCriteriaHold(p, rules[i])
                 /\ rules[i].has = {} => MatchesRule(p, rules[i])]_vars

\* a Write request was allowed by the user rule that has no criteria
C18_Witness ==
  /\ out.op = "hook"
  /\ out.arg = "write"
  /\ out.ret = "allow"
  /\ userRules # <<>>
  /\ userRules[1].has = {}
  /\ responses[out.sid] = RuleResponse(userRules[1])

\* C19 (as stated): the Bash request "rm -rf /tmp/x" is classified
\* dangerous, is not matched by the default deny-rm-rf rule and, in manual
\* mode with a chat connected, is sent to the decision channel with a
\* dangerous warning.
C19_RmRfReachesChannel ==
  [][(/\ out'.op = "hook" /\ out'.arg = "bash_rm_rf"
      /\ ~autoApproveMode /\ chatId) =>
        /\ ClassifyEscalation(Payloads["bash_rm_rf"]) = "dangerous"
        /\ ~MatchesRule(Payloads["bash_rm_rf"], DefaultRules[2])
        /\ out'.fx = <<ApprovalMessage(out'.sid, "dangerous")>>
        /\ hooks'[out'.sid].pc = "sending"]_vars

\* C19 (amended): the Bash request "rm -rf /tmp/x" is classified dangerous
\* but is matched by the default deny-rm-rf rule, so the hook denies it at
\* once by that rule, whatever the user rules, the mode and the chat: no
\* message is sent and nothing becomes pending.  The Bash request
\* "rm -r build" is classified dangerous, is not matched by deny-rm-rf and,
\* when no user rule matches it, in manual mode with a chat connected, is
\* sent to the decision channel with a dangerous warning.
C19_RmRfDeniedByRule ==
  [][
     /\ (out'.op = "hook" /\ out'.arg = "bash_rm_rf") =>
          /\ ClassifyEscalation(Payloads["bash_rm_rf"]) = "dangerous"
          /\ DefaultRules[2].name = "deny-rm-rf"
          /\ MatchesRule(Payloads["bash_rm_rf"], DefaultRules[2])
          /\ responses'[out'.sid] = RuleResponse(DefaultRules[2])
          /\ out'.ret = "deny"
          /\ out'.fx = <<>>
          /\ hooks'[out'.sid] = Returned
          /\ pendingApprovals' = pendingApprovals
          /\ timers' = timers
     /\ (/\ out'.op = "hook" /\ out'.arg = "bash_rm_r"
         /\ ~autoApproveMode /\ chatId
         /\ \A j \in 1..Len(userRules) :
               ~MatchesRule(Payloads["bash_rm_r"], userRules[j])) =>
          /\ ClassifyEscalation(Payloads["bash_rm_r"]) = "dangerous"
          /\ ~MatchesRule(Payloads["bash_rm_r"], DefaultRules[2])
          /\ out'.fx = <<ApprovalMessage(out'.sid, "dangerous")>>
          /\ hooks'[out'.sid].pc = "sending"
    ]_vars

\* "rm -rf /tmp/x" was denied by the rule in manual mode with a chat
\* connected and no user rule
C19_Witness ==
  /\ out.op = "hook"
  /\ out.arg = "bash_rm_rf"
  /\ out.ret = "deny"
  /\ userRules = <<>>
  /\ chatId
  /\ ~autoApproveMode
  /\ pendingApprovals = <<>>

\* C20: no exception propagates out of evaluateAutoApproveRules or
\* classifyEscalation: whatever the rules and the request, the hook answers
\* with a decision.
C20_NoThrow ==
  [][out'.op = "hook" => out'.ret # "error"]_vars

\* ------------------------------------------ question claims (C11..C13)
HasWrite(fx) == \E i \in 1..Len(fx) : fx[i].kind = "write"

\* an authorized callback op on the pending set id
OnPending(op, id) ==
  /\ out'.op = op
  /\ out'.sid = id
  /\ out'.ret # "Unauthorized"
  /\ id \in DOMAIN pendingQuestions

Unanswered(pending) ==
  {q \in 0..(Len(pending.questions) - 1) :
     q \notin DOMAIN pending.selections \/ pending.selections[q] = <<>>}

\* C11: a submit callback on a pending set is accepted only if every
\* question has a non-empty selection set; otherwise it is rejected naming
\* the lowest-index unanswered question, nothing is written to any session
\* and the set stays pending with its selections unchanged; when no
\* question is unanswered (any more) the submit is accepted: the answer is
\* handed to the session of the set's directory.
C11_SubmitNeedsAllAnswers ==
  [][\A id \in RequestIds :
       OnPending("askqSubmit", id) =>
         LET pending == pendingQuestions[id]
             missing == Unanswered(pending)
         IN /\ missing # {} =>
                 /\ \E q \in missing :
                      /\ \A r \in missing : q <= r
                      /\ out'.ret = "Please select an option for: Question "
                                      \o ToString(q + 1)
                 /\ out'.fx = <<>>
                 /\ sess' = sess
                 /\ pendingQuestions' = pendingQuestions
            /\ missing = {} =>
                 /\ out'.ret \in {"Answer submitted!", "Failed to submit"}
                 /\ out'.ret = "Answer submitted!" <=> HasWrite(out'.fx)
                 /\ out'.ret = "Answer submitted!" <=>
                      FindSessionByCwd(pending.sessionCwd) # 0]_vars

\* a submit on the two-question set was rejected naming question 2 while
\* question 1 has a selection
C11_Witness ==
  /\ out.op = "askqSubmit"
  /\ out.ret = "Please select an option for: Question 2"
  /\ out.sid \in DOMAIN pendingQuestions
  /\ pendingQuestions[out.sid].selections[0] # <<>>
  /\ pendingQuestions[out.sid].selections[1] = <<>>

\* C12: an accepted submit delivers the keystrokes of all questions,
\* concatenated in question order, to the session with exactly one write;
\* a selection callback on a set with more than one question writes
\* nothing to any session.
C12_OneCombinedWrite ==
  [][\A id \in RequestIds :
       /\ (OnPending("askqSubmit", id) /\ out'.ret = "Answer submitted!") =>
            LET pending == pendingQuestions[id]
                n == Len(pending.questions)
                Keys(q) == QuestionKeystrokes(pending.questions[q + 1],
                             SelectionOf(pending, q), CustomTextOf(pending, q))
                writes == {i \in 1..Len(out'.fx) : out'.fx[i].kind = "write"}
            IN /\ Cardinality(writes) = 1
               /\ out'.fx[1].kind = "write"
               /\ out'.fx[1].sid = FindSessionByCwd(pending.sessionCwd)
               /\ n = 1 => out'.fx[1].arg = Keys(0)
               /\ n = 2 => out'.fx[1].arg = Keys(0) \o Keys(1)
               /\ n \in {1, 2}
       /\ (OnPending("askqSelect", id)
             /\ Len(pendingQuestions[id].questions) > 1) =>
            /\ ~HasWrite(out'.fx)
            /\ sess' = sess
            /\ id \in DOMAIN pendingQuestions']_vars

\* the two-question set was submitted with the second option of question 1
\* and both options of the multi-select question 2: one write of
\* down, enter, space, down, space, enter
C12_Witness ==
  /\ out.op = "askqSubmit"
  /\ out.ret = "Answer submitted!"
  /\ Len(out.fx) = 2
  /\ out.fx[1].kind = "write"
  /\ out.fx[1].arg = "^[[B\r ^[[B \r"

\* C13: a pending question set leaves the pending-question map only by a
\* submit whose keystrokes were written to a session or by its expiry
\* timer; a submit that finds no non-completed session for the set's cwd
\* leaves the set and its selections in place; a selection or submit
\* callback for a request that is not pending (after expiry in particular)
\* is answered as expired and writes nothing.
C13_RemovedOnlyBySubmitOrExpiry ==
  [][\A id \in RequestIds :
       /\ (id \in DOMAIN pendingQuestions /\ id \notin DOMAIN pendingQuestions') =>
            \/ out'.op = "expireTimer" /\ out'.sid = id
            \/ /\ out'.op \in {"askqSubmit", "askqSelect"}
               /\ out'.sid = id
               /\ HasWrite(out'.fx)
       /\ (/\ OnPending("askqSubmit", id)
           /\ Unanswered(pendingQuestions[id]) = {}
           /\ FindSessionByCwd(pendingQuestions[id].sessionCwd) = 0) =>
            /\ pendingQuestions' = pendingQuestions
            /\ out'.fx = <<>>
            /\ sess' = sess
       /\ (/\ out'.op \in {"askqSubmit", "askqSelect"}
           /\ out'.sid = id
           /\ out'.ret # "Unauthorized"
           /\ id \notin DOMAIN pendingQuestions) =>
            /\ out'.ret = "Question expired or not found"
            /\ out'.fx = <<>>
            /\ sess' = sess
            /\ pendingQuestions' = pendingQuestions]_vars

\* a fully answered set was submitted while the only session of its
\* directory is completed: the submit failed and the set is still pending
C13_Witness ==
  /\ out.op = "askqSubmit"
  /\ out.ret = "Failed to submit"
  /\ out.sid \in DOMAIN pendingQuestions
  /\ Unanswered(pendingQuestions[out.sid]) = {}
  /\ \E s \in sessions :
       /\ sess[s].cwd = pendingQuestions[out.sid].sessionCwd
       /\ sess[s].status = "completed"

\* ------------------------------------------ classifier claims (C21, C22)
Reverse(seq) == [i \in 1..Len(seq) |-> seq[Len(seq) + 1 - i]]

\* the positions of the catalogue patterns that apply to a request
MatchingIndices(p) ==
  {i \in 1..Len(ESCALATION_PATTERNS) :
      /\ ESCALATION_PATTERNS[i].toolName = p.tool_name
      /\ GetCheckableText(p) # ""
      /\ RegexTest(ESCALATION_PATTERNS[i].pattern, GetCheckableText(p))}

\* C21: for every request the hook classifies, the level is the maximum
\* level over all matching catalogue patterns (safe < caution < dangerous <
\* critical), the same under the reversed catalogue; the level is safe
\* exactly when no pattern matched, and then the reason is the no-match
\* sentinel; otherwise the reason is the descriptions of the matched
\* patterns joined by ", " in catalogue order.  The hook puts that level on
\* its message.
C21_MaxLevelCatalogueOrder ==
  [][(out'.op = "hook" /\ Payloads[out'.arg].has_input) =>
       LET p == Payloads[out'.arg]
           r == Classify(ESCALATION_PATTERNS, p)
           M == MatchingIndices(p)
           inOrder == Ascending(M)
       IN /\ \A i \in M : LevelOrder[ESCALATION_PATTERNS[i].level]
                             <= LevelOrder[r.level]
          /\ \/ M = {} /\ r.level = "safe"
             \/ \E i \in M : ESCALATION_PATTERNS[i].level = r.level
          /\ Classify(Reverse(ESCALATION_PATTERNS), p).level = r.level
          /\ (r.level = "safe") <=> (M = {})
          /\ M = {} => r.reason = NO_MATCH
          /\ M # {} =>
               r.reason = Join([k \in 1..Len(inOrder) |->
                                  ESCALATION_PATTERNS[inOrder[k]].description])
          /\ out'.arg = "bash_chmod_rm" =>
               /\ r.level = "dangerous"
               /\ r.reason = "Recursive delete, Permission change"
          /\ out'.arg = "bash_mkfs" =>
               /\ r.level = "critical"
               /\ r.reason = "Filesystem formatting, Permission change"
          /\ out'.arg = "read" => r.reason = "No escalation patterns matched"
          /\ \A k \in 1..Len(out'.fx) :
                out'.fx[k].kind \in {"approvalMessage", "escalationWarning"}
                  => out'.fx[k].arg = r.level]_vars

\* a request matching a dangerous and a caution pattern was sent to the
\* decision channel as dangerous
C21_Witness ==
  /\ out.op = "hook"
  /\ out.arg = "bash_chmod_rm"
  /\ out.fx = <<ApprovalMessage(out.sid, "dangerous")>>

\* C22: the decision of a tool request is a function of the rule match, the
\* auto-approve mode, the chat connection and the operator's decision
\* alone: a matched rule gives its action, otherwise auto-approve mode
\* gives allow, otherwise no chat gives deny, otherwise the request waits
\* and gets the operator's button (allow and allow-all give allow, deny
\* gives deny) or deny from the timeout or a failed send.  The escalation
\* level of the request appears in none of these; it only puts the warning
\* on the message sent.
C22_DecisionIgnoresLevel ==
  [][
     /\ (/\ out'.op = "hook"
         /\ Payloads[out'.arg].tool_name # "AskUserQuestion") =>
          LET p == Payloads[out'.arg]
              m == EvaluateAutoApproveRules(p, AutoApproveRules)
              level == ClassifyEscalation(p)
          IN /\ out'.ret = (CASE m # 0 -> AutoApproveRules[m].action
                              [] m = 0 /\ autoApproveMode -> "allow"
                              [] m = 0 /\ ~autoApproveMode /\ ~chatId -> "deny"
                              [] OTHER -> "")
             /\ responses'[out'.sid].decision = out'.ret
             /\ out'.fx =
                  (CASE m # 0 -> <<>>
                     [] m = 0 /\ autoApproveMode ->
                          IF level \in {"dangerous", "critical"} /\ chatId
                          THEN <<EscalationWarning(out'.sid, level)>>
                          ELSE <<>>
                     [] m = 0 /\ ~autoApproveMode /\ ~chatId -> <<>>
                     [] OTHER -> <<ApprovalMessage(out'.sid, level)>>)
     /\ \A id \in DOMAIN responses :
          (/\ out'.op # "hook"
           /\ hooks[id].payload # ""
           /\ Payloads[hooks[id].payload].tool_name # "AskUserQuestion"
           /\ responses'[id] # responses[id]) =>
             /\ responses[id] = NoResponse
             /\ out'.op \in {"callback", "denyTimer", "approvalSendFailed"}
             /\ responses'[id].decision =
                  (IF out'.op = "callback" /\ out'.arg \in {"allow", "allowall"}
                   THEN "allow" ELSE "deny")
    ]_vars

\* a dangerous request was allowed in auto-approve mode with a warning, with
\* the same answer as another request before it
C22_Witness ==
  /\ out.op = "hook"
  /\ out.arg = "bash_rm_r"
  /\ out.ret = "allow"
  /\ out.fx = <<EscalationWarning(out.sid, "dangerous")>>
  /\ \E id \in DOMAIN responses :
        /\ id # out.sid
        /\ responses[id] = responses[out.sid]

\* ------------------------------------- session registry claims (C23..C25)
\* the registered sessions in cwd that are not completed
LiveIn(cwd) ==
  {s \in sessions : sess[s].cwd = cwd /\ sess[s].status # "completed"}

\* C23 (as stated): findSessionByCwd(cwd) returns the most recently spawned
\* session that is not completed and whose working directory equals cwd, or
\* none when there is no such session; never a completed session.
C23_MostRecentLive ==
  [][out'.op = "findSessionByCwd" =>
       LET live == LiveIn(out'.arg)
       IN IF live = {} THEN out'.sid = 0
          ELSE /\ out'.sid \in live
               /\ \A s \in live : s <= out'.sid]_vars

\* what the code does: the session returned is not completed and is in cwd,
\* and it is the one spawned first among those
C23_OldestLive ==
  [][out'.op = "findSessionByCwd" =>
       LET live == LiveIn(out'.arg)
       IN IF live = {} THEN out'.sid = 0
          ELSE /\ out'.sid \in live
               /\ \A s \in live : out'.sid <= s]_vars

\* a lookup with two live sessions in the directory
C23_Witness ==
  /\ out.op = "findSessionByCwd"
  /\ Cardinality(LiveIn(out.arg)) >= 2

\* C24 (as stated): kill on a registered session and killAll leave the
\* status completed when they return, and on a session that was completed
\* already they change nothing of the session and do not signal its process
\* again.
C24_KillIdempotent ==
  [][
     /\ (out'.op = "kill" /\ out'.sid \in sessions) =>
          sess'[out'.sid].status = "completed"
     /\ out'.op = "killAll" =>
          \A s \in sessions : sess'[s].status = "completed"
     /\ out'.op \in {"kill", "killAll"} =>
          \A s \in sessions :
             sess[s].status = "completed" =>
               /\ sess'[s] = sess[s]
               /\ \A k \in 1..Len(out'.fx) : out'.fx[k] # PtyKill(s)
    ]_vars

\* what holds of killAll alone: it signals exactly the sessions that were
\* not completed, each once, and leaves the completed ones untouched
C24_KillAllIdempotent ==
  [][out'.op = "killAll" =>
       /\ \A s \in sessions : sess'[s].status = "completed"
       /\ \A s \in sessions :
            Cardinality({k \in 1..Len(out'.fx) : out'.fx[k] = PtyKill(s)})
              = (IF sess[s].status = "completed" THEN 0 ELSE 1)
       /\ \A s \in sessions :
            sess[s].status = "completed" => sess'[s] = sess[s]]_vars

\* the exit events for session s among the effects fx
ExitEventsOf(fx, s) ==
  {k \in 1..Len(fx) : fx[k].kind = "exit" /\ fx[k].sid = s}

\* C25: the termination of a session's process is reported by one callback,
\* which sets the status to completed and emits one exit event with the exit
\* code; no other operation emits an exit event and the callback runs once
\* per session, also for a session that a kill had completed before; from
\* then on the session is completed and sendInput on it returns false and
\* writes nothing.
C25_ExitOnce ==
  [][
     /\ \A s \in DOMAIN sess' :
          /\ ExitEventsOf(out'.fx, s) # {} =>
               /\ out'.op = "exit" /\ out'.sid = s
               /\ out'.fx[1] = ExitEvent(s, 0) \/ out'.fx[1] = ExitEvent(s, 1)
               /\ Cardinality(ExitEventsOf(out'.fx, s)) = 1
               /\ out'.fx[1].arg = out'.arg
               /\ s \notin exited
               /\ s \in exited'
          /\ (s \in exited' /\ s \notin exited) =>
               /\ Cardinality(ExitEventsOf(out'.fx, s)) = 1
               /\ sess'[s].status = "completed"
          /\ s \in exited => /\ s \in exited'
                             /\ sess[s].status = "completed"
                             /\ sess'[s].status = "completed"
     /\ (out'.op = "sendInput" /\ out'.sid \in exited) =>
          /\ out'.ret = FALSE
          /\ out'.fx = <<>>
    ]_vars

\* input was refused on a registered session whose process had exited
C25_Witness ==
  /\ out.op = "sendInput"
  /\ out.sid \in exited
  /\ out.sid \in sessions
  /\ out.ret = FALSE

\* ------------------------------------------------- buffer claims (C26)
\* the last n elements (characters) of a sequence (string), all when shorter
LastOf(seq, n) ==
  IF Len(seq) <= n THEN seq ELSE SubSeq(seq, Len(seq) - n + 1, Len(seq))

\* C26: every chunk leaves the line buffer with at most 100 lines, none of
\* them blank, equal to the last 100 of the lines it held followed by the
\* non-blank lines of the chunk in their order; and leaves the raw buffer
\* with at most 50000 characters, equal to the last 50000 characters of what
\* it held followed by the chunk.  (From the empty buffers of spawn this
\* makes them the most recent lines and the tail of all output received.)
C26_BuffersRolling ==
  [][out'.op = "handleOutput" =>
       LET s == out'.sid
           data == out'.fx[1].arg
           lines == SelectSeq(Split(data), LAMBDA line : ~IsBlank(line))
           before == sess[s]
           after == sess'[s]
       IN /\ Split("z\n\nw ") = <<"z", "", "w ">>
          /\ Split(" \n\r") = <<" ", "\r">>
          /\ IsBlank("\r") /\ IsBlank("") /\ ~IsBlank("w ")
          /\ Len(after.buffer) <= 100
          /\ \A i \in 1..Len(after.buffer) : ~IsBlank(after.buffer[i])
          /\ after.buffer = LastOf(before.buffer \o lines, 100)
          /\ Len(after.rawBuffer) <= 50000
          /\ after.rawBuffer = LastOf(before.rawBuffer \o data, 50000)]_vars

\* a chunk of two lines arrived at a full line buffer and a full raw
\* buffer: the oldest lines and characters were dropped
C26_Witness ==
  /\ out.op = "handleOutput"
  /\ out.fx[1].arg = "z\n\nw "
  /\ Len(sess[1].buffer) = 100
  /\ sess[1].buffer[1] = "x"
  /\ sess[1].buffer[99] = "z"
  /\ sess[1].buffer[100] = "w "
  /\ Len(sess[1].rawBuffer) = 50000

\* ------------------------------------------- keystroke claims (C27..C29)
Digits == {"0", "1", "2", "3", "4", "5", "6", "7", "8", "9"}

\* the keys an accepted answer wrote to the session
Written(fx) == fx[1].arg

\* C27: when a selection on the single-select question of a one-question
\* set is written to the session, the keys for the selected option with
\* 0-based index k are exactly k move-downs followed by one Enter, with no
\* digit among them (index 2 of four options: two move-downs, then Enter).
C27_SingleSelectKeys ==
  [][\A id \in RequestIds, k \in KeyOptionIndices :
       (/\ OnPending("askqSelect", id)
        /\ out'.arg = "askq:0:" \o ToString(k)
        /\ ~pendingQuestions[id].questions[1].multiSelect
        /\ HasWrite(out'.fx)) =>
          LET keys == Written(out'.fx)
          IN /\ keys = (CASE k = 0 -> "\r"
                          [] k = 1 -> "^[[B\r"
                          [] k = 2 -> "^[[B^[[B\r"
                          [] k = 3 -> "^[[B^[[B^[[B\r")
             /\ keys = Repeat(DOWN, k) \o ENTER
             /\ \A i \in 1..Len(keys) : SubSeq(keys, i, i) \notin Digits]_vars

\* option C of [A, B, C, D] was selected and written as two move-downs and
\* Enter
C27_Witness ==
  /\ out.op = "askqSelect"
  /\ out.arg = "askq:0:2"
  /\ out.ret = "Answer submitted!"
  /\ out.fx[1] = PtyWrite(1, "^[[B^[[B\r")

\* the keys that walk the cursor down from option 0 to the last option of S,
\* toggling the options of S on the way, and confirm
WalkAndToggle(S) ==
  LET Step(i) ==
        IF \E j \in S : j >= i
        THEN (IF i > 0 THEN "^[[B" ELSE "") \o (IF i \in S THEN " " ELSE "")
        ELSE ""
  IN Step(0) \o Step(1) \o Step(2) \o Step(3) \o "\r"

\* C28: when the answer to a multi-select question (the only question of
\* its set, no custom text for it) is written, the keys handle the selected options in ascending order of
\* index: for each, the move-downs from the cursor's position (option 0 at
\* first, then the option toggled last) to that option and one toggle; one
\* Enter ends them.  They depend on the set of selected options only, not
\* on the order in which the options were selected.
C28_MultiSelectKeys ==
  [][\A id \in RequestIds :
       (/\ OnPending("askqSubmit", id)
        /\ Len(pendingQuestions[id].questions) = 1
        /\ pendingQuestions[id].questions[1].multiSelect
        /\ ~(/\ SetHas(SelectionOf(pendingQuestions[id], 0), -1)
             /\ CustomTextOf(pendingQuestions[id], 0) # "")
        /\ HasWrite(out'.fx)) =>
          LET S == Elements(SelectionOf(pendingQuestions[id], 0))
              keys == Written(out'.fx)
          IN /\ keys = WalkAndToggle(S)
             /\ S = {0, 2} => keys = " ^[[B^[[B \r"
             /\ S = {1, 3} => keys = "^[[B ^[[B^[[B \r"
             /\ S = {3} => keys = "^[[B^[[B^[[B \r"]_vars

\* the options 0 and 2 of four were selected and written as toggle, two
\* move-downs, toggle, Enter
C28_Witness ==
  /\ out.op = "askqSubmit"
  /\ out.ret = "Answer submitted!"
  /\ out.fx[1] = PtyWrite(1, " ^[[B^[[B \r")

\* C29 (as stated): the keys for a question (the only one of its set)
\* answered with custom text are
\* move-downs to the free-text option, then the text, then one Enter, with
\* no other key in between.
C29_CustomTextKeys ==
  [][\A id \in RequestIds :
       (/\ OnPending("askqSubmit", id)
        /\ Len(pendingQuestions[id].questions) = 1
        /\ SetHas(SelectionOf(pendingQuestions[id], 0), -1)
        /\ CustomTextOf(pendingQuestions[id], 0) # ""
        /\ HasWrite(out'.fx)) =>
          \E m \in 0..3 :
             Written(out'.fx) =
               Repeat(DOWN, m) \o CustomTextOf(pendingQuestions[id], 0) \o ENTER]_vars

\* C29 (amended): the keys for a question (the only one of its set)
\* answered with custom text are
\* min(2, number of options - 1) move-downs, one Enter that selects the
\* option reached, the text, and one Enter that confirms it, and nothing
\* else.
C29_CustomTextKeysWithSelect ==
  [][\A id \in RequestIds :
       (/\ OnPending("askqSubmit", id)
        /\ Len(pendingQuestions[id].questions) = 1
        /\ SetHas(SelectionOf(pendingQuestions[id], 0), -1)
        /\ CustomTextOf(pendingQuestions[id], 0) # ""
        /\ HasWrite(out'.fx)) =>
          LET n == pendingQuestions[id].questions[1].options
              text == CustomTextOf(pendingQuestions[id], 0)
              keys == Written(out'.fx)
          IN /\ n = 2 => keys = "^[[B" \o "\r" \o text \o "\r"
             /\ n = 4 => keys = "^[[B^[[B" \o "\r" \o text \o "\r"
             /\ n \in {2, 4}]_vars

\* the custom text "hi" was written for a question with four options
C29_Witness ==
  /\ out.op = "askqSubmit"
  /\ out.ret = "Answer submitted!"
  /\ out.fx[1] = PtyWrite(1, "^[[B^[[B\rhi\r")

\* ---------------------------------------------- selection claim (C30)
\* C30: an authorized selection callback for option oi of question qi of a
\* pending set: on a multi-select question it removes oi from the
\* question's selection set if it was in it and adds it otherwise (so a
\* second such callback restores the membership), leaves the other
\* questions' selections alone and submits nothing, also when the question
\* is the only one of its set; on a single-select question it makes the
\* selection exactly oi, and it submits at once exactly when the set has
\* one question (the set leaves the map if the keys were written and stays
\* with the selection oi if not).
C30_ToggleOrReplace ==
  [][\A id \in RequestIds, qi \in QuestionIndices, oi \in KeyOptionIndices :
       (/\ OnPending("askqSelect", id)
        /\ out'.arg = "askq:" \o ToString(qi) \o ":" \o ToString(oi)
        /\ qi < Len(pendingQuestions[id].questions)) =>
          LET pending == pendingQuestions[id]
              n == Len(pending.questions)
              old == Elements(SelectionOf(pending, qi))
              Others(after) ==
                \A r \in 0..(n - 1) :
                   r # qi => after.selections[r] = pending.selections[r]
          IN IF pending.questions[qi + 1].multiSelect
             THEN /\ id \in DOMAIN pendingQuestions'
                  /\ Elements(pendingQuestions'[id].selections[qi]) =
                       (IF oi \in old THEN old \ {oi} ELSE old \cup {oi})
                  /\ Others(pendingQuestions'[id])
                  /\ ~HasWrite(out'.fx)
                  /\ sess' = sess
                  /\ out'.ret = "Toggled"
             ELSE IF n = 1
             THEN /\ out'.ret \in {"Answer submitted!", "Failed to submit"}
                  /\ out'.ret = "Answer submitted!" <=> HasWrite(out'.fx)
                  /\ HasWrite(out'.fx) <=> id \notin DOMAIN pendingQuestions'
                  /\ id \in DOMAIN pendingQuestions' =>
                       pendingQuestions'[id].selections[qi] = <<oi>>
             ELSE /\ id \in DOMAIN pendingQuestions'
                  /\ pendingQuestions'[id].selections[qi] = <<oi>>
                  /\ Others(pendingQuestions'[id])
                  /\ ~HasWrite(out'.fx)
                  /\ sess' = sess
                  /\ out'.ret = "Selected"]_vars

\* option 1 of the multi-select question that is alone in its set was
\* toggled off again: option 0 stays selected, nothing was submitted
C30_Witness ==
  /\ out.op = "askqSelect"
  /\ out.arg = "askq:0:1"
  /\ out.ret = "Toggled"
  /\ out.sid \in DOMAIN pendingQuestions
  /\ Len(pendingQuestions[out.sid].questions) = 1
  /\ pendingQuestions[out.sid].selections[0] = <<0>>
  /\ sessions # {}

\* ------------------------------------------- custom text claim (C31)
\* C31 (as stated): in a pending question set a custom text is stored for
\* question q only if -1 is in the selection set of q.
C31_CustomTextOnlyWithSentinel ==
  \A id \in DOMAIN pendingQuestions :
     \A q \in DOMAIN pendingQuestions[id].customTexts :
        SetHas(SelectionOf(pendingQuestions[id], q), -1)

\* ------------------------------------------- lifecycle claim (C32)
\* C32: kill, killAll and the exit of a session's process leave the
\* pending-approval map, the pending-question map, the timers and the
\* unanswered hook requests as they are; an approval leaves its map only by
\* a button callback or its own 10-minute timer, a question set only by a
\* submit that was written or its own expiry timer.
C32_PendingSurviveSession ==
  [][
     /\ out'.op \in {"kill", "killAll", "exit"} =>
          /\ pendingApprovals' = pendingApprovals
          /\ pendingQuestions' = pendingQuestions
          /\ timers' = timers
          /\ hooks' = hooks
          /\ responses' = responses
          /\ resolveCalls' = resolveCalls
     /\ \A id \in DOMAIN pendingApprovals :
          id \notin DOMAIN pendingApprovals' =>
             /\ out'.op \in {"callback", "denyTimer"}
             /\ out'.sid = id
     /\ \A id \in DOMAIN pendingQuestions :
          id \notin DOMAIN pendingQuestions' =>
             /\ out'.op \in {"askqSubmit", "askqSelect", "expireTimer"}
             /\ out'.sid = id
    ]_vars

\* the only session was killed and has exited while an approval and a
\* question set are pending
C32_Witness ==
  /\ out.op = "exit"
  /\ sess[out.sid].status = "completed"
  /\ pendingApprovals # <<>>
  /\ pendingQuestions # <<>>

TimersOf(ts, id) == {t \in ts : t.id = id}

\* C34: a step that resolves or times out one pending approval leaves every
\* other request as it was: its entry in the map, its waiting hook, its
\* answer, its resolve calls and its timers.  A new request takes an id no
\* request had before.
C34_ApprovalsIndependent ==
  [][
     /\ \A id \in DOMAIN pendingApprovals :
          (\/ id \notin DOMAIN pendingApprovals'
           \/ hooks'[id] # hooks[id]
           \/ responses'[id] # responses[id]
           \/ resolveCalls'[id] # resolveCalls[id]
           \/ TimersOf(timers', id) # TimersOf(timers, id)) =>
             /\ out'.op \in {"callback", "denyTimer", "warnTimer"}
             /\ out'.sid = id
     /\ (out'.op \in {"callback", "denyTimer"}) =>
          \A id \in DOMAIN pendingApprovals \ {out'.sid} :
             /\ id \in DOMAIN pendingApprovals'
             /\ pendingApprovals'[id] = pendingApprovals[id]
     /\ out'.op = "hook" =>
          /\ out'.sid \notin DOMAIN hooks
          /\ out'.sid = requestCounter'
          /\ requestCounter' = requestCounter + 1
     /\ requestCounter' >= requestCounter
    ]_vars

\* the allow-all button of one request was pressed while another request was
\* pending, and the other is still pending with its hook waiting
C34_Witness ==
  /\ out.op = "callback"
  /\ out.arg = "allowall"
  /\ out.ret = "Auto-approve enabled!"
  /\ out.sid \in DOMAIN resolveCalls
  /\ resolveCalls[out.sid] = <<"allow">>
  /\ \E id \in DOMAIN pendingApprovals :
        /\ id # out.sid
        /\ hooks[id].pc # "returned"
        /\ resolveCalls[id] = <<>>

\* ------------------------------------------- decision values (C35)
\* C35: whatever callback data an authorized chat sends, a pending approval
\* is resolved with allow or deny only, and the hook caller's decision is
\* one of the two.
C35_DecisionAllowOrDeny ==
  /\ \A id \in DOMAIN resolveCalls :
        \A i \in 1..Len(resolveCalls[id]) :
           resolveCalls[id][i] \in {"allow", "deny"}
  /\ \A id \in DOMAIN responses :
        resolveCalls[id] # <<>> => responses[id].decision \in {"allow", "deny"}

\* ------------------------------------------- rate limiter (C36)
\* the calls of key that returned true at a time in (end - windowMs, end]
GrantedIn(key, end) ==
  {i \in 1..Len(granted[key]) :
      granted[key][i] > end - limiter.windowMs /\ granted[key][i] <= end}

\* (window) for every key, the calls that returned true within any
\* windowMs consecutive milliseconds (end - windowMs, end] number at most
\* maxRequests.
C36_SlidingWindow ==
  \A key \in DOMAIN granted :
     \A i \in 1..Len(granted[key]) :
        Cardinality(GrantedIn(key, granted[key][i])) <= limiter.maxRequests

\* (calls) check(key) returns true exactly when remaining(key) was
\* greater than 0 just before the call; a rejected call records no
\* timestamp (the key's list is what expiry leaves of it), an accepted one
\* records the time of the call.
C36_CheckIffRemaining ==
  [][
     out'.op = "check" =>
        LET key == out'.arg
            before == Timestamps(limiter, key)
            after == limiter'.requests[key]
        IN /\ out'.ret = (RemainingAt(limiter, key, now) > 0)
           /\ out'.ret = FALSE =>
                /\ granted' = granted
                /\ after = Valid(before, now - limiter.windowMs)
           /\ out'.ret = TRUE =>
                /\ after = Append(Valid(before, now - limiter.windowMs), now)
                /\ granted'[key][Len(granted'[key])] = now
    ]_vars

\* C36: RateLimiter is a sliding window: under a clock that never goes
\* back, the calls of a key that returned true within any windowMs
\* consecutive milliseconds never exceed maxRequests; a rejected call
\* records no timestamp; check(key) returns true exactly when remaining(key)
\* was greater than 0 just before the call.
C36_RateLimiter == []C36_SlidingWindow /\ C36_CheckIffRemaining

\* a limiter of one request per window has rejected a call, and has let
\* two calls of the same key pass exactly windowMs apart
C36_Witness ==
  /\ out.op = "check"
  /\ out.ret = FALSE
  /\ limiter.maxRequests = 1
  /\ out.arg \in DOMAIN granted
  /\ Len(granted[out.arg]) = 2
  /\ granted[out.arg][2] = granted[out.arg][1] + limiter.windowMs

\* ------------------------------------------- rules before Allow-All (C37)
\* C37: while Allow-All mode is on, a request whose rule evaluation ends at
\* a deny rule is denied with that rule as the reason and is not counted as
\* auto-approved; the mode's own allow is given only to requests that no
\* rule matched.
C37_RulesBeforeAllowAll ==
  [][\A pn \in PayloadNames :
       (/\ out'.op = "hook"
        /\ out'.arg = pn
        /\ autoApproveMode
        /\ Payloads[pn].tool_name # "AskUserQuestion") =>
          LET id == out'.sid
              rules == DefaultRules \o userRules
              hits == {i \in 1..Len(rules) :
                         MatchOutcome(Payloads[pn], rules[i]) = "true"}
              throws == {i \in 1..Len(rules) :
                           MatchOutcome(Payloads[pn], rules[i]) = "throw"}
              first == CHOOSE i \in hits : \A j \in hits : i <= j
          IN /\ (/\ hits # {}
                 /\ rules[first].action = "deny"
                 /\ \A j \in throws : first < j) =>
                   /\ responses'[id] =
                         Response("deny", <<"Rule", rules[first].name>>)
                   /\ hooks'[id] = Returned
                   /\ autoApproveCount' = autoApproveCount
                   /\ out'.fx = <<>>
             /\ responses'[id].reason = <<"Auto-approved (Allow All mode)">> =>
                   /\ hits = {}
                   /\ responses'[id].decision = "allow"
                   /\ autoApproveCount' = autoApproveCount + 1
    ]_vars

\* a Bash rm -rf request was denied by a rule while Allow-All mode was on
C37_Witness ==
  /\ out.op = "hook"
  /\ out.arg = "bash_rm_rf"
  /\ autoApproveMode
  /\ out.ret = "deny"
  /\ responses[out.sid].reason[1] = "Rule"

\* ------------------------------------------- prompt tracking (C38)
\* C38: a session whose status is active tracks no prompt; a tracked prompt
\* exists only while the status is waiting or completed.
C38_ActiveHasNoPrompt ==
  \A s \in sessions :
     /\ sess[s].status = "active" => sess[s].currentPrompt = NoPrompt
     /\ sess[s].currentPrompt # NoPrompt =>
           sess[s].status \in {"waiting", "completed"}

\* a session that tracked a prompt is active again after an input, with no
\* prompt tracked
C38_Witness ==
  /\ out.op = "sendInput"
  /\ out.ret = TRUE
  /\ lastParsed[out.sid].type # NoPrompt
  /\ sess[out.sid].status = "active"
  /\ sess[out.sid].currentPrompt = NoPrompt

\* ------------------------------------------- questions being sent (C39)
\* C39: a selection, "Other" or submit callback for a question request of
\* which at least one message is in the chat, and whose remaining messages
\* are still being sent, is not answered as expired.
C39_NoExpiredWhileSending ==
  [][
     (/\ out'.op \in {"askqSelect", "askqOther", "askqSubmit"}
      /\ out'.sid \in DOMAIN hooks
      /\ hooks[out'.sid].pc = "asking"
      /\ hooks[out'.sid].sent >= 1) =>
        out'.ret \notin {"Question expired or not found",
                         "Question expired or already answered"}
    ]_vars

\* ------------------------------------------- AskUserQuestion (C40)
InterceptAnswer == Response("allow", <<"AskUserQuestion intercepted for Telegram">>)

\* C40: a hook request for AskUserQuestion is answered allow whatever the
\* rules, Allow-All mode and the chat are: its handler either returns allow
\* at once or sends the question messages and then returns allow, never
\* counting the request as auto-approved nor asking for an approval; a
\* pending question set is created only for a request with at least one
\* question while a chat is connected.
C40_AskAlwaysAllowed ==
  [][
     /\ \A pn \in InterceptPayloads :
          (out'.op = "hook" /\ out'.arg = pn) =>
             LET id == out'.sid
                 asks == Len(Payloads[pn].questions) > 0 /\ chatId
             IN /\ asks => /\ hooks'[id].pc = "asking"
                           /\ out'.fx = <<QuestionMessage(id)>>
                /\ ~asks => /\ hooks'[id] = Returned
                            /\ responses'[id] = InterceptAnswer
                            /\ out'.fx = <<>>
                /\ autoApproveCount' = autoApproveCount
                /\ pendingApprovals' = pendingApprovals
                /\ pendingQuestions' = pendingQuestions
     /\ (out'.op = "questionSent" /\ hooks'[out'.sid] = Returned) =>
          responses'[out'.sid] = InterceptAnswer
     /\ \A id \in DOMAIN pendingQuestions' \ DOMAIN pendingQuestions :
          /\ out'.op = "questionSent"
          /\ out'.sid = id
          /\ Len(Payloads[hooks[id].payload].questions) >= 1
          /\ chatId
    ]_vars

\* a one-question request was answered allow, and its set is pending, while
\* Allow-All mode is on and a user rule denies the AskUserQuestion tool
C40_Witness ==
  /\ out.op = "questionSent"
  /\ out.ret = "allow"
  /\ out.sid \in DOMAIN pendingQuestions
  /\ autoApproveMode
  /\ userRules # <<>>
  /\ userRules[1].name = "deny-ask"

====
